---- MODULE Spec2Model ----
(***************************************************************************)
(* The faculty scraper of research-helper: the email/name extraction       *)
(* heuristics, the name-pairing assistant, the link-analysis fallback and  *)
(* the publication lookup of src/faculty-scraper-proto.py, with the        *)
(* stand-alone lookup of src/api-test/Serp-GScholar-API-test.py.           *)
(*                                                                         *)
(* A Python str is a sequence of one-character strings, so that lower(),   *)
(* strip(), split(), startswith(), `in` and the regular expressions are    *)
(* computed character by character as the interpreter computes them.       *)
(***************************************************************************)
EXTENDS Integers, Sequences, FiniteSets, TLC

\* ------------------------------------------------------------------------
\* str primitives
\* ------------------------------------------------------------------------
skip_patterns ==
    << <<"i", "n", "f", "o", "@">>,
       <<"c", "o", "n", "t", "a", "c", "t", "@">>,
       <<"a", "d", "m", "i", "n", "@">>,
       <<"w", "e", "b", "m", "a", "s", "t", "e", "r", "@">>,
       <<"s", "u", "p", "p", "o", "r", "t", "@">>,
       <<"h", "e", "l", "p", "@">>,
       <<"n", "o", "r", "e", "p", "l", "y", "@">>,
       <<"n", "o", "-", "r", "e", "p", "l", "y", "@">>,
       <<"p", "o", "s", "t", "m", "a", "s", "t", "e", "r", "@">>,
       <<"a", "d", "m", "i", "s", "s", "i", "o", "n", "s", "@">>,
       <<"r", "e", "g", "i", "s", "t", "r", "a", "r", "@">>,
       <<"b", "u", "r", "s", "a", "r", "@">>,
       <<"c", "o", "m", "m", "u", "n", "i", "c", "a", "t", "i", "o", "n", "s", "@">>,
       <<"m", "a", "r", "k", "e", "t", "i", "n", "g", "@">>,
       <<"e", "v", "e", "n", "t", "s", "@">>,
       <<"n", "e", "w", "s", "@">>,
       <<"m", "e", "d", "i", "a", "@">>,
       <<"p", "r", "e", "s", "s", "@">>,
       <<"a", "l", "u", "m", "n", "i", "@">> >>

generic_keywords ==
    << <<"m", "a", "i", "l", "i", "n", "g">>,
       <<"l", "i", "s", "t">>,
       <<"n", "e", "w", "s", "l", "e", "t", "t", "e", "r">>,
       <<"a", "n", "n", "o", "u", "n", "c", "e", "m", "e", "n", "t", "s">>,
       <<"u", "p", "d", "a", "t", "e", "s">>,
       <<"d", "e", "p", "a", "r", "t", "m", "e", "n", "t">>,
       <<"o", "f", "f", "i", "c", "e">>,
       <<"c", "o", "m", "m", "i", "t", "t", "e", "e">>,
       <<"b", "o", "a", "r", "d">>,
       <<"c", "o", "u", "n", "c", "i", "l">> >>

generic_terms ==
    << <<"a", "r", "t", "i", "f", "i", "c", "i", "a", "l", " ", "i", "n", "t", "e", "l", "l", "i", "g", "e", "n", "c", "e">>,
       <<"m", "a", "c", "h", "i", "n", "e", " ", "l", "e", "a", "r", "n", "i", "n", "g">>,
       <<"c", "o", "m", "p", "u", "t", "e", "r", " ", "s", "c", "i", "e", "n", "c", "e">>,
       <<"p", "r", "o", "g", "r", "a", "m", "m", "i", "n", "g", " ", "l", "a", "n", "g", "u", "a", "g", "e", "s">>,
       <<"s", "o", "f", "t", "w", "a", "r", "e", " ", "e", "n", "g", "i", "n", "e", "e", "r", "i", "n", "g">>,
       <<"d", "a", "t", "a", " ", "s", "c", "i", "e", "n", "c", "e">>,
       <<"i", "n", "f", "o", "r", "m", "a", "t", "i", "o", "n", " ", "s", "c", "i", "e", "n", "c", "e">>,
       <<"c", "o", "m", "p", "u", "t", "e", "r", " ", "s", "y", "s", "t", "e", "m", "s">>,
       <<"a", "l", "g", "o", "r", "i", "t", "h", "m", "s">>,
       <<"t", "h", "e", "o", "r", "e", "t", "i", "c", "a", "l", " ", "c", "o", "m", "p", "u", "t", "e", "r", " ", "s", "c", "i", "e", "n", "c", "e">>,
       <<"h", "u", "m", "a", "n", " ", "c", "o", "m", "p", "u", "t", "e", "r", " ", "i", "n", "t", "e", "r", "a", "c", "t", "i", "o", "n">>,
       <<"c", "o", "m", "p", "u", "t", "e", "r", " ", "g", "r", "a", "p", "h", "i", "c", "s">>,
       <<"c", "o", "m", "p", "u", "t", "e", "r", " ", "v", "i", "s", "i", "o", "n">>,
       <<"r", "o", "b", "o", "t", "i", "c", "s">>,
       <<"c", "y", "b", "e", "r", "s", "e", "c", "u", "r", "i", "t", "y">>,
       <<"n", "e", "t", "w", "o", "r", "k", "s">>,
       <<"d", "a", "t", "a", "b", "a", "s", "e", "s">>,
       <<"q", "u", "a", "n", "t", "u", "m", " ", "c", "o", "m", "p", "u", "t", "i", "n", "g">>,
       <<"i", "n", "t", "e", "g", "r", "a", "t", "e", "d", " ", "c", "i", "r", "c", "u", "i", "t", "s">>,
       <<"g", "a", "m", "e", " ", "t", "h", "e", "o", "r", "y">>,
       <<"c", "o", "m", "p", "u", "t", "a", "t", "i", "o", "n", "a", "l", " ", "f", "a", "b", "r", "i", "c", "a", "t", "i", "o", "n">>,
       <<"m", "e", "d", "i", "c", "a", "l", " ", "d", "e", "v", "i", "c", "e", "s">>,
       <<"q", "u", "a", "n", "t", "u", "m", " ", "m", "a", "t", "e", "r", "i", "a", "l", "s">>,
       <<"e", "n", "g", " ", "t", "h", "e", "s", "i", "s">>,
       <<"i", "n", "t", "e", "r", "i", "m", " ", "v", "i", "c", "e">>,
       <<"s", "c", "h", "w", "a", "r", "z", "m", "a", "n", " ", "c", "o", "l", "l", "e", "g", "e">>,
       <<"s", "i", "b", "l", "e", "y", " ", "w", "e", "b", "s", "t", "e", "r">>,
       <<"e", "l", "l", "e", "n", " ", "s", "w", "a", "l", "l", "o", "w">>,
       <<"n", "o", "r", "b", "e", "r", "t", " ", "w", "i", "e", "n", "e", "r">> >>

AdminPrefixes ==
    << <<"i", "n", "f", "o">>,
       <<"c", "o", "n", "t", "a", "c", "t">>,
       <<"a", "d", "m", "i", "n">>,
       <<"w", "e", "b", "m", "a", "s", "t", "e", "r">>,
       <<"s", "u", "p", "p", "o", "r", "t">>,
       <<"h", "e", "l", "p">>,
       <<"n", "o", "r", "e", "p", "l", "y">>,
       <<"n", "o", "-", "r", "e", "p", "l", "y">>,
       <<"p", "o", "s", "t", "m", "a", "s", "t", "e", "r">>,
       <<"a", "d", "m", "i", "s", "s", "i", "o", "n", "s">>,
       <<"r", "e", "g", "i", "s", "t", "r", "a", "r">>,
       <<"b", "u", "r", "s", "a", "r">>,
       <<"c", "o", "m", "m", "u", "n", "i", "c", "a", "t", "i", "o", "n", "s">>,
       <<"m", "a", "r", "k", "e", "t", "i", "n", "g">>,
       <<"e", "v", "e", "n", "t", "s">>,
       <<"n", "e", "w", "s">>,
       <<"m", "e", "d", "i", "a">>,
       <<"p", "r", "e", "s", "s">>,
       <<"a", "l", "u", "m", "n", "i">> >>

UpperChars == <<"A", "B", "C", "D", "E", "F", "G", "H", "I", "J", "K", "L", "M", "N", "O", "P", "Q", "R", "S", "T", "U", "V", "W", "X", "Y", "Z">>
LowerChars == <<"a", "b", "c", "d", "e", "f", "g", "h", "i", "j", "k", "l", "m", "n", "o", "p", "q", "r", "s", "t", "u", "v", "w", "x", "y", "z">>

w_Jane == <<"J", "a", "n", "e">>
w_Smith == <<"S", "m", "i", "t", "h">>
w_jane == <<"j", "a", "n", "e">>
w_J == <<"J">>
w_OConnor == <<"O", "'", "C", "o", "n", "n", "o", "r">>
w_Computer == <<"C", "o", "m", "p", "u", "t", "e", "r">>
w_Science == <<"S", "c", "i", "e", "n", "c", "e">>
w_Robotics == <<"R", "o", "b", "o", "t", "i", "c", "s">>
w_SmithJones == <<"S", "m", "i", "t", "h", "-", "J", "o", "n", "e", "s">>
t_Dr_dot == <<"D", "r", ".">>
t_Dr == <<"D", "r">>
t_Prof == <<"P", "r", "o", "f">>
t_Professor == <<"P", "r", "o", "f", "e", "s", "s", "o", "r">>
sp == <<" ">>
w_Ann == <<"A", "n", "n">>
w_John == <<"J", "o", "h", "n">>
w_Doe == <<"D", "o", "e">>
u_info == <<"i", "n", "f", "o">>
u_Info == <<"I", "n", "f", "o">>
u_no_reply == <<"n", "o", "-", "r", "e", "p", "l", "y">>
u_jane_smith == <<"j", "a", "n", "e", ".", "s", "m", "i", "t", "h">>
u_jdoe == <<"j", "d", "o", "e">>
u_information == <<"i", "n", "f", "o", "r", "m", "a", "t", "i", "o", "n">>
u_cs_list == <<"c", "s", "-", "l", "i", "s", "t">>
d_cs_example == <<"c", "s", ".", "e", "x", "a", "m", "p", "l", "e">>
d_x == <<"x">>
d_office_x == <<"o", "f", "f", "i", "c", "e", ".", "x">>
s_at == <<"@">>
s_dot == <<".">>
s_dot_edu == <<".", "e", "d", "u">>
s_http == <<"h", "t", "t", "p">>
s_www_dot == <<"w", "w", "w", ".">>
s_slash == <<"/">>
s_slash_slash == <<"/", "/">>
s_mailto == <<"m", "a", "i", "l", "t", "o", ":">>
url_people == <<"h", "t", "t", "p", "s", ":", "/", "/", "w", "w", "w", ".", "c", "s", ".", "e", "x", "a", "m", "p", "l", "e", ".", "e", "d", "u", "/", "p", "e", "o", "p", "l", "e">>
url_jane == <<"h", "t", "t", "p", "s", ":", "/", "/", "w", "w", "w", ".", "c", "s", ".", "e", "x", "a", "m", "p", "l", "e", ".", "e", "d", "u", "/", "p", "e", "o", "p", "l", "e", "/", "j", "a", "n", "e">>
url_john == <<"h", "t", "t", "p", "s", ":", "/", "/", "f", "a", "c", "u", "l", "t", "y", ".", "e", "x", "a", "m", "p", "l", "e", ".", "e", "d", "u", "/", "j", "o", "h", "n">>
href_jane == <<"/", "p", "e", "o", "p", "l", "e", "/", "j", "a", "n", "e">>
s_email_placeholder == <<"e", "m", "a", "i", "l", "@", "u", "n", "i", "v", "e", "r", "s", "i", "t", "y", ".", "e", "d", "u", " ", "(", "i", "f", " ", "f", "o", "u", "n", "d", ")">>
s_NA == <<"N", "/", "A">>
s_err_no_key == <<"S", "E", "R", "P", "A", "P", "I", "_", "A", "P", "I", "_", "K", "E", "Y", " ", "n", "o", "t", " ", "f", "o", "u", "n", "d", " ", "i", "n", " ", "e", "n", "v", "i", "r", "o", "n", "m", "e", "n", "t", " ", "v", "a", "r", "i", "a", "b", "l", "e", "s">>
s_err_http == <<"H", "T", "T", "P", " ">>
s_colon_sp == <<":", " ">>
s_err_api == <<"A", "P", "I", " ", "E", "r", "r", "o", "r", ":", " ">>
s_err_no_papers == <<"N", "o", " ", "p", "a", "p", "e", "r", "s", " ", "f", "o", "u", "n", "d", " ", "f", "o", "r", " ">>
s_err_timeout == <<"R", "e", "q", "u", "e", "s", "t", " ", "t", "i", "m", "e", "d", " ", "o", "u", "t">>
s_err_request == <<"R", "e", "q", "u", "e", "s", "t", " ", "f", "a", "i", "l", "e", "d", ":", " ">>
s_err_unexpected == <<"U", "n", "e", "x", "p", "e", "c", "t", "e", "d", " ", "e", "r", "r", "o", "r", ":", " ">>
s_err_test_timeout == <<"R", "e", "q", "u", "e", "s", "t", " ", "t", "i", "m", "e", "d", " ", "o", "u", "t", ".", " ", "T", "r", "y", " ", "a", "g", "a", "i", "n", " ", "o", "r", " ", "c", "h", "e", "c", "k", " ", "y", "o", "u", "r", " ", "i", "n", "t", "e", "r", "n", "e", "t", " ", "c", "o", "n", "n", "e", "c", "t", "i", "o", "n", ".">>
s_err_test_connection == <<"C", "o", "n", "n", "e", "c", "t", "i", "o", "n", " ", "e", "r", "r", "o", "r", ".", " ", "C", "h", "e", "c", "k", " ", "y", "o", "u", "r", " ", "i", "n", "t", "e", "r", "n", "e", "t", " ", "c", "o", "n", "n", "e", "c", "t", "i", "o", "n", " ", "o", "r", " ", "t", "r", "y", " ", "a", "g", "a", "i", "n", " ", "l", "a", "t", "e", "r", ".">>
s_500 == <<"5", "0", "0">>
s_key == <<"k", "e", "y">>
s_quota == <<"q", "u", "o", "t", "a">>
s_detail == <<"d", "e", "t", "a", "i", "l">>
s_summary == <<"s", "u", "m", "m", "a", "r", "y">>
url_people_bare == <<"h", "t", "t", "p", "s", ":", "/", "/", "c", "s", ".", "e", "x", "a", "m", "p", "l", "e", ".", "e", "d", "u", "/", "p", "e", "o", "p", "l", "e">>
url_people_jane == <<"h", "t", "t", "p", "s", ":", "/", "/", "w", "w", "w", ".", "c", "s", ".", "e", "x", "a", "m", "p", "l", "e", ".", "e", "d", "u", "/", "p", "e", "o", "p", "l", "e", "-", "j", "a", "n", "e">>
url_faculty_root == <<"h", "t", "t", "p", "s", ":", "/", "/", "f", "a", "c", "u", "l", "t", "y", ".", "e", "x", "a", "m", "p", "l", "e", ".", "e", "d", "u">>
file_people == <<"c", "s", ".", "e", "x", "a", "m", "p", "l", "e", ".", "e", "d", "u", "_", "p", "e", "o", "p", "l", "e", ".", "j", "s", "o", "n">>
file_john == <<"f", "a", "c", "u", "l", "t", "y", ".", "e", "x", "a", "m", "p", "l", "e", ".", "e", "d", "u", "_", "j", "o", "h", "n", ".", "j", "s", "o", "n">>
Whitespace == {" ", "\t", "\n"}

UpperSet == {UpperChars[i] : i \in DOMAIN UpperChars}

LowerOf == [c \in UpperSet |-> LowerChars[CHOOSE i \in DOMAIN UpperChars : UpperChars[i] = c]]

\* str.lower() on one character
lower_char(c) == IF c \in UpperSet THEN LowerOf[c] ELSE c

Letters == UpperSet \cup {LowerChars[i] : i \in DOMAIN LowerChars}

\* str.lower()
lower(s) == [i \in DOMAIN s |-> lower_char(s[i])]

\* str.startswith(prefix)
startswith(s, prefix) ==
    Len(prefix) <= Len(s) /\ SubSeq(s, 1, Len(prefix)) = prefix

\* `sub in s` on two str
contains(s, sub) ==
    \E i \in 0..(Len(s) - Len(sub)) : SubSeq(s, i + 1, i + Len(sub)) = sub

\* str.lstrip(): the text from the first character that is not whitespace
lstrip(s) ==
    IF \A i \in DOMAIN s : s[i] \in Whitespace THEN <<>>
    ELSE SubSeq(s, CHOOSE i \in DOMAIN s :
                        s[i] \notin Whitespace /\ \A j \in 1..(i - 1) : s[j] \in Whitespace,
                Len(s))

\* str.rstrip(): the text up to the last character that is not whitespace
rstrip(s) ==
    IF \A i \in DOMAIN s : s[i] \in Whitespace THEN <<>>
    ELSE SubSeq(s, 1, CHOOSE i \in DOMAIN s :
                        s[i] \notin Whitespace /\ \A j \in (i + 1)..Len(s) : s[j] \in Whitespace)

\* str.strip()
strip(s) == rstrip(lstrip(s))

\* str.split(): the maximal runs of characters that are not whitespace
RECURSIVE split(_)
split(s) ==
    LET t == lstrip(s) IN
    IF t = <<>> THEN <<>>
    ELSE LET stop == IF \E i \in DOMAIN t : t[i] \in Whitespace
                     THEN CHOOSE i \in DOMAIN t :
                              t[i] \in Whitespace /\ \A j \in 1..(i - 1) : t[j] \notin Whitespace
                     ELSE Len(t) + 1
         IN <<SubSeq(t, 1, stop - 1)>> \o split(SubSeq(t, stop, Len(t)))

\* the elements of a list, as a set
Range(s) == {s[i] : i \in DOMAIN s}

\* ------------------------------------------------------------------------
\* IntegratedFacultyScraper.is_faculty_email
\* ------------------------------------------------------------------------
is_faculty_email_no_skip(email) ==
    LET email_lower == lower(email) IN
    \A k \in DOMAIN generic_keywords : ~contains(email_lower, generic_keywords[k])

is_faculty_email(email) ==
    LET email_lower == lower(email) IN
    IF \E p \in DOMAIN skip_patterns : startswith(email_lower, skip_patterns[p])
    THEN FALSE
    ELSE IF \E k \in DOMAIN generic_keywords : contains(email_lower, generic_keywords[k])
    THEN FALSE
    ELSE TRUE

\* ------------------------------------------------------------------------
\* IntegratedFacultyScraper.is_valid_professor_name
\* ------------------------------------------------------------------------
TitlePrefixes == <<t_Professor, t_Prof, t_Dr_dot, t_Dr>>

\* re.sub(r'^(Prof(?:essor)?|Dr\.?)\s+', '', name): a title at the start that is
\* followed by whitespace is removed together with that whitespace
re_sub_title(name) ==
    LET Hit(t) == /\ startswith(name, TitlePrefixes[t])
                  /\ Len(name) > Len(TitlePrefixes[t])
                  /\ name[Len(TitlePrefixes[t]) + 1] \in Whitespace
    IN IF \E t \in DOMAIN TitlePrefixes : Hit(t)
       THEN LET t == CHOOSE t \in DOMAIN TitlePrefixes :
                         Hit(t) /\ \A u \in 1..(t - 1) : ~Hit(u)
            IN lstrip(SubSeq(name, Len(TitlePrefixes[t]) + 1, Len(name)))
       ELSE name

\* re.match(r'^[A-Z][a-zA-Z\']*$', word)
re_match_name_word(word) ==
    /\ Len(word) >= 1
    /\ word[1] \in UpperSet
    /\ \A i \in 2..Len(word) : word[i] \in Letters \cup {"'"}

\* the validator without its list of generic terms
is_valid_professor_name_no_terms(name) ==
    IF name = <<>> \/ Len(name) < 3 THEN FALSE
    ELSE LET words == split(strip(re_sub_title(name))) IN
         IF Len(words) < 2 THEN FALSE
         ELSE \A i \in 1..2 : Len(words[i]) >= 2 /\ re_match_name_word(words[i])

is_valid_professor_name(name) ==
    IF name = <<>> \/ Len(name) < 3 THEN FALSE
    ELSE LET clean_name == strip(re_sub_title(name))
             words == split(clean_name)
             name_lower == lower(clean_name)
         IN IF Len(words) < 2 THEN FALSE
            ELSE IF \E t \in DOMAIN generic_terms : contains(name_lower, generic_terms[t])
            THEN FALSE
            ELSE \A i \in 1..2 : Len(words[i]) >= 2 /\ re_match_name_word(words[i])

\* ------------------------------------------------------------------------
\* Pages. A parsed page (soup) is the list of its elements that the scraper
\* can see:
\*   [kind |-> "text", user, domain]          an address in the visible text
\*   [kind |-> "mailto", user, domain, label] <a href="mailto:address">label</a>
\*   [kind |-> "obfuscated", user, domain]    "user [at] domain [dot] edu"
\*   [kind |-> "name", sel, name, href]       an element that name_selectors[sel]
\*                                            selects, with its text and href
\*   [kind |-> "link", href, label]           any other <a href=...>
\* ------------------------------------------------------------------------
FACULTY_LINKS_LIMIT == 5
LINK_ANALYSIS_LIMIT == 10

\* s[:n]
Take(s, n) == SubSeq(s, 1, IF Len(s) < n THEN Len(s) ELSE n)

RECURSIVE Flatten(_)
Flatten(ss) == IF ss = <<>> THEN <<>> ELSE Head(ss) \o Flatten(Tail(ss))

address(user, domain) == user \o s_at \o domain \o s_dot_edu

\* re.findall(email_pattern, page_text): the addresses of the visible text
findall_email_pattern(soup) ==
    LET hit(e) == e.kind = "text"
        hits == SelectSeq(soup, hit)
    IN [i \in DOMAIN hits |-> address(hits[i].user, hits[i].domain)]

\* re.findall(mailto_pattern, html_content): the addresses of the mailto hrefs
findall_mailto_pattern(soup) ==
    LET hit(e) == e.kind = "mailto"
        hits == SelectSeq(soup, hit)
    IN [i \in DOMAIN hits |-> address(hits[i].user, hits[i].domain)]

\* re.findall(obfuscated_pattern, clean_page_text): the (user, domain) groups;
\* the pattern accepts "@" for "[at]" and "." for "[dot]", so it also matches
\* every plain address of the text
findall_obfuscated_pattern(soup) ==
    LET hit(e) == e.kind \in {"text", "obfuscated"}
        hits == SelectSeq(soup, hit)
    IN [i \in DOMAIN hits |-> <<hits[i].user, hits[i].domain>>]

\* lines 66-83: all_emails
harvest_all_emails(soup) ==
    LET obfuscated_emails == findall_obfuscated_pattern(soup) IN
    findall_email_pattern(soup)
        \o findall_mailto_pattern(soup)
        \o [i \in DOMAIN obfuscated_emails |->
                obfuscated_emails[i][1] \o s_at \o obfuscated_emails[i][2] \o s_dot_edu]

\* lines 87-94: remove duplicates and filter
RECURSIVE unique_loop(_, _, _)
unique_loop(all, seen, unique_emails) ==
    IF all = <<>> THEN unique_emails
    ELSE LET email == Head(all)
             email_lower == strip(lower(email))
         IN IF email_lower \notin seen /\ is_faculty_email(email_lower)
            THEN unique_loop(Tail(all), seen \cup {email_lower}, Append(unique_emails, email))
            ELSE unique_loop(Tail(all), seen, unique_emails)

filter_unique_emails(all) == unique_loop(all, {}, <<>>)

\* ------------------------------------------------------------------------
\* urllib.parse
\* ------------------------------------------------------------------------
\* the index of the first occurrence of sub in s, 0 when there is none
find(s, sub) ==
    IF contains(s, sub)
    THEN 1 + CHOOSE i \in 0..(Len(s) - Len(sub)) :
                 /\ SubSeq(s, i + 1, i + Len(sub)) = sub
                 /\ \A j \in 0..(i - 1) : SubSeq(s, j + 1, j + Len(sub)) # sub
    ELSE 0

\* urlparse(url).netloc: what follows "//" up to the next "/"
netloc(url) ==
    IF find(url, s_slash_slash) = 0 THEN <<>>
    ELSE LET rest == SubSeq(url, find(url, s_slash_slash) + 2, Len(url))
         IN IF find(rest, s_slash) = 0 THEN rest
            ELSE SubSeq(rest, 1, find(rest, s_slash) - 1)

\* urljoin(base, href) for the two shapes of href that are not absolute http
\* URLs: an absolute path, which replaces the path of base, and a URL of
\* another scheme (mailto:), which is kept
urljoin(base, href) ==
    IF startswith(href, s_slash)
    THEN SubSeq(base, 1, find(base, s_slash_slash) + 1) \o netloc(base) \o href
    ELSE href

\* the host that addresses are constructed for: netloc without a leading www.
email_domain(url) ==
    LET domain == netloc(url) IN
    IF startswith(domain, s_www_dot) THEN SubSeq(domain, 5, Len(domain)) ELSE domain

\* ------------------------------------------------------------------------
\* Language-model replies. A reply is
\*   [kind |-> "exception"]         the API call raised
\*   [kind |-> "text"]              a completion that json.loads rejects
\*   [kind |-> "json", value |-> v] a completion that json.loads accepts
\*   [kind |-> "wrapped", value |-> v] a completion that json.loads rejects as
\*                                  a whole: prose around the text of the JSON value v
\* and a JSON value is [t |-> "null"], [t |-> "str", v |-> chars],
\* [t |-> "list", items |-> <<...>>] or [t |-> "obj", ...] with one field per
\* key the prompts ask for, [t |-> "missing"] standing for an absent key.
\* ------------------------------------------------------------------------
JMissing == [t |-> "missing"]
JNull == [t |-> "null"]
JStr(s) == [t |-> "str", v |-> s]
JList(items) == [t |-> "list", items |-> items]

\* an optional value: None is <<>>, any other value x is <<x>>
None == <<>>
Some(x) == <<x>>

ReplyException == [kind |-> "exception"]
ReplyText == [kind |-> "text"]
ReplyJson(v) == [kind |-> "json", value |-> v]
ReplyWrapped(v) == [kind |-> "wrapped", value |-> v]

\* dict.get(key, default) of a key that holds a str or is absent
get_or(field, default) == IF field.t = "missing" THEN default ELSE field.v

s_medium == "medium"
s_low == "low"

\* ------------------------------------------------------------------------
\* IntegratedFacultyScraper.extract_names_and_construct_emails
\* ------------------------------------------------------------------------
name_selectors ==
    << ".faculty-name", ".person-name", ".profile-name", "h2 a", "h3 a", "h4 a",
       ".faculty-card h2", ".faculty-card h3", ".person-card .name", ".person-title",
       "td a[href*=\"faculty\"]", "td a[href*=\"people\"]" >>

\* lines 121-137: the valid names, selector by selector
select_faculty_names(soup, base_url) ==
    LET of_selector(sel) ==
            LET hit(e) == e.kind = "name" /\ e.sel = sel /\ is_valid_professor_name(strip(e.name))
                hits == SelectSeq(soup, hit)
            IN [i \in DOMAIN hits |->
                   [name |-> strip(hits[i].name),
                    profile_url |-> IF hits[i].href # <<>> /\ ~startswith(hits[i].href, s_http)
                                    THEN urljoin(base_url, hits[i].href)
                                    ELSE hits[i].href,
                    source_selector |-> name_selectors[sel]]]
    IN Flatten([sel \in DOMAIN name_selectors |-> of_selector(sel)])

\* lines 139-146: remove duplicates
RECURSIVE unique_faculty_loop(_, _, _)
unique_faculty_loop(faculty_names, seen_names, unique_faculty) ==
    IF faculty_names = <<>> THEN unique_faculty
    ELSE LET faculty == Head(faculty_names)
             name_key == lower(faculty.name)
         IN IF name_key \notin seen_names
            THEN unique_faculty_loop(Tail(faculty_names), seen_names \cup {name_key},
                                     Append(unique_faculty, faculty))
            ELSE unique_faculty_loop(Tail(faculty_names), seen_names, unique_faculty)

\* lines 158-165: first.last@domain
construct_email(name, domain) ==
    LET name_parts == split(lower(name)) IN
    name_parts[1] \o s_dot \o name_parts[Len(name_parts)] \o s_at \o domain

extract_names_and_construct_emails(soup, base_url) ==
    LET unique_faculty == unique_faculty_loop(select_faculty_names(soup, base_url), {}, <<>>)
        domain == email_domain(base_url)
        has_two_parts(f) == Len(split(lower(f.name))) >= 2
        kept == SelectSeq(unique_faculty, has_two_parts)
    IN [i \in DOMAIN kept |->
           [name |-> kept[i].name,
            email |-> construct_email(kept[i].name, domain),
            profile_url |-> kept[i].profile_url,
            source |-> "name_extraction_email_construction",
            confidence |-> s_low]]

\* ------------------------------------------------------------------------
\* IntegratedFacultyScraper.extract_email_name_pairs_with_ai
\* ------------------------------------------------------------------------
\* entry.get('email', '').strip() or entry.get('name', '').strip() raises
\* AttributeError: the entry is no object, or the key holds null
pair_entry_raises(entry) ==
    \/ entry.t # "obj"
    \/ entry.email.t = "null"
    \/ entry.name.t = "null"

\* lines 274-276
pair_entry_valid_any_email(entry, emails) ==
    LET email == strip(get_or(entry.email, <<>>))
        name == strip(get_or(entry.name, <<>>))
    IN email # <<>> /\ name # <<>> /\ is_valid_professor_name(name)

pair_entry_valid(entry, emails) ==
    LET email == strip(get_or(entry.email, <<>>))
        name == strip(get_or(entry.name, <<>>))
    IN /\ email # <<>>
       /\ name # <<>>
       /\ is_valid_professor_name(name)
       /\ email \in Range(emails)

\* lines 268-288 without the test of lines 274-276: every entry that is an
\* object with two strings becomes a candidate
RECURSIVE pair_entries_unchecked(_, _)
pair_entries_unchecked(result, emails) ==
    IF result = <<>> THEN <<>>
    ELSE << [name |-> strip(get_or(Head(result).name, <<>>)),
             email |-> strip(get_or(Head(result).email, <<>>)),
             source |-> "ai_page_analysis",
             confidence |-> get_or(Head(result).confidence, s_medium)] >>
         \o pair_entries_unchecked(Tail(result), emails)

\* lines 268-288, for a list none of whose entries raises
RECURSIVE pair_entries(_, _)
pair_entries(result, emails) ==
    IF result = <<>> THEN <<>>
    ELSE LET entry == Head(result) IN
         (IF pair_entry_valid(entry, emails)
          THEN << [name |-> strip(get_or(entry.name, <<>>)),
                   email |-> strip(get_or(entry.email, <<>>)),
                   source |-> "ai_page_analysis",
                   confidence |-> get_or(entry.confidence, s_medium)] >>
          ELSE <<>>)
         \o pair_entries(Tail(result), emails)

extract_email_name_pairs_with_ai(emails, reply) ==
    IF reply.kind = "exception" THEN <<>>
    \* lines 290-292: json.JSONDecodeError, nothing else is tried
    ELSE IF reply.kind \in {"text", "wrapped"} THEN <<>>
    ELSE IF reply.value.t # "list" THEN <<>>
    ELSE IF \E i \in DOMAIN reply.value.items : pair_entry_raises(reply.value.items[i])
    THEN <<>>
    ELSE pair_entries(reply.value.items, emails)

\* ------------------------------------------------------------------------
\* IntegratedFacultyScraper.find_all_faculty_emails_and_names
\* ------------------------------------------------------------------------
find_all_faculty_emails_and_names(soup, faculty_page_url, reply) ==
    LET unique_emails_ == filter_unique_emails(harvest_all_emails(soup))
        faculty_data_ == IF unique_emails_ = <<>>
                         THEN extract_names_and_construct_emails(soup, faculty_page_url)
                         ELSE extract_email_name_pairs_with_ai(unique_emails_, reply)
    IN Take(faculty_data_, FACULTY_LINKS_LIMIT)

\* ------------------------------------------------------------------------
\* IntegratedFacultyScraper.find_relevant_faculty_links
\* ------------------------------------------------------------------------
\* the href of an element of the page, <<>> when it has none
href_of(e) ==
    IF e.kind = "mailto" THEN s_mailto \o address(e.user, e.domain)
    ELSE IF e.kind \in {"name", "link"} THEN e.href
    ELSE <<>>

\* lines 303-328: the links of the page that were not visited yet
collect_all_links(soup, base_url, visited_urls) ==
    LET absolute(e) == IF startswith(href_of(e), s_http) THEN href_of(e)
                       ELSE urljoin(base_url, href_of(e))
        hit(e) == href_of(e) # <<>> /\ absolute(e) \notin visited_urls
        hits == SelectSeq(soup, hit)
    IN [i \in DOMAIN hits |-> absolute(hits[i])]

\* lines 339-344: the links that the prompt lists
links_sample(all_links) == Take(all_links, 50)

\* lines 330-344: the links listed in the prompt sent to the language model,
\* None when the function returns before the request
link_analysis_request(soup, base_url, visited_urls) ==
    LET all_links == collect_all_links(soup, base_url, visited_urls) IN
    IF all_links = <<>> THEN None ELSE Some(links_sample(all_links))

\* lines 389-392 without the test against self.visited_urls
valid_url_any(url, visited_urls) ==
    url.t = "str" /\ startswith(url.v, s_http)

\* lines 389-392
valid_url(url, visited_urls) ==
    url.t = "str" /\ startswith(url.v, s_http) /\ url.v \notin visited_urls

find_relevant_faculty_links(soup, base_url, visited_urls, reply) ==
    IF collect_all_links(soup, base_url, visited_urls) = <<>> THEN <<>>
    ELSE IF reply.kind \in {"exception", "text", "wrapped"} THEN <<>>
    \* for url in relevant_urls: raises on null, visits the characters of a str
    ELSE IF reply.value.t # "list" THEN <<>>
    ELSE LET ok(url) == valid_url(url, visited_urls)
             valid_urls == SelectSeq(reply.value.items, ok)
         IN Take([i \in DOMAIN valid_urls |-> valid_urls[i].v], LINK_ANALYSIS_LIMIT)

\* ------------------------------------------------------------------------
\* IntegratedFacultyScraper.extract_faculty_info_from_profile, after the page
\* was fetched: the dict returned, as Some(dict), or None
\* ------------------------------------------------------------------------
\* lines 460-461 raise: the reply is no object, or name or email is null
profile_raises(result) ==
    \/ result.t # "obj"
    \/ result.name.t = "null"
    \/ result.email.t = "null"

\* lines 467-479 without the construction: the reply's email is kept as it is
profile_email_as_replied(result, profile_url) == get_or(result.email, <<>>)

\* lines 467-479: result['email'] when the function returns
profile_email(result, profile_url) ==
    LET name == strip(get_or(result.name, <<>>))
        email == strip(get_or(result.email, <<>>))
    IN IF email = <<>> \/ email = s_email_placeholder
       THEN construct_email(name, email_domain(profile_url))
       ELSE get_or(result.email, <<>>)

profile_email_constructed(result) ==
    LET email == strip(get_or(result.email, <<>>)) IN
    email = <<>> \/ email = s_email_placeholder

extract_faculty_info_from_profile(profile_url, reply) ==
    IF reply.kind \in {"exception", "text", "wrapped"} THEN None
    ELSE IF profile_raises(reply.value) THEN None
    ELSE LET result == reply.value
             name == strip(get_or(result.name, <<>>))
         IN IF name = <<>> \/ ~is_valid_professor_name(name) THEN None
            ELSE Some([name |-> get_or(result.name, <<>>),
                       email |-> profile_email(result, profile_url),
                       email_constructed |-> profile_email_constructed(result),
                       profile_url |-> profile_url,
                       source |-> "individual_profile_analysis"])

\* lines 526-537: the candidate that scrape_faculty_from_links appends
link_candidate(faculty_info) ==
    [name |-> faculty_info.name,
     email |-> faculty_info.email,
     title |-> <<>>,
     department |-> <<>>,
     profile_url |-> faculty_info.profile_url,
     research_interests |-> <<>>,
     source |-> "link_analysis_fallback",
     confidence |-> s_medium,
     email_constructed |-> faculty_info.email_constructed]

\* ------------------------------------------------------------------------
\* The literature API. What session.get(url, params, timeout=30) does is
\*   [kind |-> "timeout"]                     requests.exceptions.Timeout
\*   [kind |-> "connection"]                  requests.exceptions.ConnectionError
\*   [kind |-> "http", status |-> chars]      a status other than 200
\*   [kind |-> "unparsable", raises |-> cls]  200, and response.json() raises cls
\*   [kind |-> "json", data |-> v]            200 with the JSON value v
\* A search result is [t |-> "obj", title, inline_links] (or another JSON value),
\* inline_links is [t |-> "obj", cited_by] and cited_by [t |-> "obj", total].
\* ------------------------------------------------------------------------
JInt(n) == [t |-> "int", v |-> n]


\* lines 639-641: cited_by_count of one result that is an object
cited_by_count_default_one(result) ==
    IF result.inline_links.t = "missing" THEN 1
    ELSE IF result.inline_links.cited_by.t = "missing" THEN 1
    ELSE IF result.inline_links.cited_by.total.t = "missing" THEN 1
    ELSE result.inline_links.cited_by.total.v

cited_by_count(result) ==
    IF result.inline_links.t = "missing" THEN 0
    ELSE IF result.inline_links.cited_by.t = "missing" THEN 0
    ELSE IF result.inline_links.cited_by.total.t = "missing" THEN 0
    ELSE result.inline_links.cited_by.total.v

\* the loop body raises: result.get on a value that is no object, or
\* `"cited_by" in` / .get on an inline_links or cited_by that is null
result_raises(result) ==
    \/ result.t # "obj"
    \/ result.inline_links.t = "null"
    \/ (result.inline_links.t = "obj" /\ result.inline_links.cited_by.t = "null")

\* lines 643-650
paper_of(result) ==
    [title |-> get_or(result.title, s_NA),
     authors |-> s_NA,
     publication_info |-> s_NA,
     snippet |-> s_NA,
     cited_by |-> cited_by_count(result),
     link |-> s_NA]

\* sorted(papers, key=lambda x: x["cited_by"], reverse=True): each paper goes
\* behind the papers cited at least as often that precede it in the input
RECURSIVE sorted_unstable(_)
sorted_unstable(papers) ==
    IF papers = <<>> THEN <<>>
    ELSE LET front == sorted_unstable(SubSeq(papers, 1, Len(papers) - 1))
             p == papers[Len(papers)]
             k == Cardinality({i \in DOMAIN front : front[i].cited_by > p.cited_by})
         IN SubSeq(front, 1, k) \o <<p>> \o SubSeq(front, k + 1, Len(front))

RECURSIVE sorted_by_cited_by_desc(_)
sorted_by_cited_by_desc(papers) ==
    IF papers = <<>> THEN <<>>
    ELSE LET front == sorted_by_cited_by_desc(SubSeq(papers, 1, Len(papers) - 1))
             p == papers[Len(papers)]
             k == Cardinality({i \in DOMAIN front : front[i].cited_by >= p.cited_by})
         IN SubSeq(front, 1, k) \o <<p>> \o SubSeq(front, k + 1, Len(front))

\* the test without `not data["organic_results"]` for an empty list
no_organic_results_unless_empty(data) ==
    \/ data.t # "obj"
    \/ data.organic_results.t \in {"missing", "null"}

\* `if "organic_results" not in data or not data["organic_results"]`
no_organic_results(data) ==
    \/ data.t # "obj"
    \/ data.organic_results.t \in {"missing", "null"}
    \/ (data.organic_results.t = "list" /\ data.organic_results.items = <<>>)

TOP_PAPERS == 5

\* ------------------------------------------------------------------------
\* IntegratedFacultyScraper.get_professor_papers_direct_search
\* ------------------------------------------------------------------------
professor_of(prof_name, prof_email) == [name |-> prof_name, email |-> prof_email]

\* papers_sorted without the slice [:5]
direct_search_top_all(papers) == sorted_by_cited_by_desc(papers)

\* lines 653-655
direct_search_top(papers) == Take(sorted_by_cited_by_desc(papers), TOP_PAPERS)

\* lines 610-662, the body of the try block: [ret |-> the dict returned] or
\* [exc |-> the class of the exception raised]
try_direct_search(prof_name, prof_email, response) ==
    IF response.kind = "timeout" THEN [exc |-> "Timeout"]
    ELSE IF response.kind = "connection" THEN [exc |-> "ConnectionError"]
    ELSE IF response.kind = "http"
    THEN [ret |-> [error |-> s_err_http \o response.status \o s_colon_sp,
                   professor |-> professor_of(prof_name, prof_email)]]
    ELSE IF response.kind = "unparsable" THEN [exc |-> response.raises]
    ELSE LET data == response.data IN
         \* `"error" in data` on a body that is neither an object nor an array
         IF data.t \notin {"obj", "list"} THEN [exc |-> "TypeError"]
         ELSE IF data.t = "obj" /\ data.error.t # "missing"
         THEN [ret |-> [error |-> s_err_api \o get_or(data.error, <<>>),
                        professor |-> professor_of(prof_name, prof_email)]]
         ELSE IF no_organic_results(data)
         THEN [ret |-> [error |-> s_err_no_papers \o prof_name,
                        professor |-> professor_of(prof_name, prof_email)]]
         ELSE LET organic_results == data.organic_results.items IN
              IF \E i \in DOMAIN organic_results : result_raises(organic_results[i])
              THEN [exc |-> "AttributeError"]
              ELSE LET papers == [i \in DOMAIN organic_results |-> paper_of(organic_results[i])]
                   IN [ret |-> [papers |-> direct_search_top(papers),
                                total_papers_found |-> Len(papers)]]

\* the subclasses of requests.exceptions.RequestException among the classes raised
RequestExceptions == {"Timeout", "ConnectionError", "RequestsJSONDecodeError"}

\* lines 664-669: the except clauses, in order
direct_search_except(exc) ==
    IF exc = "Timeout" THEN [error |-> s_err_timeout]
    ELSE IF exc \in RequestExceptions THEN [error |-> s_err_request \o s_detail]
    ELSE [error |-> s_err_unexpected \o s_detail]

\* the function without its last clause, `except Exception`
get_professor_papers_direct_search_no_catch_all(serpapi_key, prof_name, prof_email, response) ==
    IF serpapi_key = <<>>
    THEN [error |-> s_err_no_key, professor |-> professor_of(prof_name, prof_email)]
    ELSE LET outcome == try_direct_search(prof_name, prof_email, response) IN
         IF "ret" \in DOMAIN outcome THEN outcome.ret
         ELSE IF outcome.exc \in RequestExceptions THEN direct_search_except(outcome.exc)
         ELSE outcome

\* what the call gives its caller: the dict returned; a record [exc |-> class]
\* would be an exception that leaves the function
get_professor_papers_direct_search(serpapi_key, prof_name, prof_email, response) ==
    IF serpapi_key = <<>>
    THEN [error |-> s_err_no_key, professor |-> professor_of(prof_name, prof_email)]
    ELSE LET outcome == try_direct_search(prof_name, prof_email, response) IN
         IF "ret" \in DOMAIN outcome THEN outcome.ret
         ELSE direct_search_except(outcome.exc)

\* ------------------------------------------------------------------------
\* api-test/Serp-GScholar-API-test.py: get_professor_papers_direct_search
\* ------------------------------------------------------------------------
TEST_TOP_PAPERS == 3

\* lines 97-106
test_paper_of(result, i) ==
    [rank |-> i,
     title |-> get_or(result.title, s_NA),
     authors |-> s_NA,
     publication_info |-> s_NA,
     snippet |-> s_NA,
     cited_by |-> cited_by_count(result),
     link |-> s_NA,
     result_id |-> s_NA]

\* lines 113-115: the first TEST_TOP_PAPERS papers of the sorted list get the
\* ranks 1, 2, 3; the dicts are shared with all_papers
test_rerank(papers_sorted) ==
    [i \in DOMAIN papers_sorted |->
        IF i <= TEST_TOP_PAPERS THEN [papers_sorted[i] EXCEPT !.rank = i] ELSE papers_sorted[i]]

test_error(message, prof_name, prof_email) ==
    [error |-> message, professor |-> professor_of(prof_name, prof_email)]

test_get_professor_papers_direct_search(prof_name, prof_email, response) ==
    IF response.kind = "timeout" THEN test_error(s_err_test_timeout, prof_name, prof_email)
    ELSE IF response.kind = "connection"
    THEN test_error(s_err_test_connection, prof_name, prof_email)
    ELSE IF response.kind = "http"
    THEN test_error(s_err_http \o response.status \o s_colon_sp, prof_name, prof_email)
    ELSE IF response.kind = "unparsable"
    THEN (IF response.raises \in RequestExceptions
          THEN test_error(s_err_request \o s_detail, prof_name, prof_email)
          ELSE test_error(s_err_unexpected \o s_detail, prof_name, prof_email))
    ELSE LET data == response.data IN
         \* print(list(data.keys())) raises on a body that is no object
         IF data.t # "obj"
         THEN test_error(s_err_unexpected \o s_detail, prof_name, prof_email)
         ELSE IF data.error.t # "missing"
         THEN test_error(s_err_api \o get_or(data.error, <<>>), prof_name, prof_email)
         ELSE IF no_organic_results(data)
         THEN test_error(s_err_no_papers \o prof_name, prof_name, prof_email)
         ELSE LET organic_results == data.organic_results.items IN
              IF \E i \in DOMAIN organic_results : result_raises(organic_results[i])
              THEN test_error(s_err_unexpected \o s_detail, prof_name, prof_email)
              ELSE LET papers == [i \in DOMAIN organic_results |->
                                     test_paper_of(organic_results[i], i)]
                       all_papers == test_rerank(sorted_by_cited_by_desc(papers))
                   IN [professor |-> [name |-> prof_name,
                                      email |-> prof_email,
                                      search_method |-> "Direct author search",
                                      total_papers_found |-> Len(papers)],
                       top_papers |-> Take(all_papers, TEST_TOP_PAPERS),
                       all_papers |-> all_papers]

\* ------------------------------------------------------------------------
\* IntegratedFacultyScraper.generate_research_summary_with_ai
\* ------------------------------------------------------------------------
empty_research_summary ==
    [t |-> "obj", research_summary |-> JStr(<<>>), research_keywords |-> JList(<<>>),
     research_areas |-> JList(<<>>)]

\* the value returned: json.loads of the completion, whatever JSON value it is,
\* or the empty profile after any exception
generate_research_summary_with_ai(prof_name, papers, reply) ==
    IF papers = <<>> THEN empty_research_summary
    ELSE IF reply.kind \in {"exception", "text", "wrapped"} THEN empty_research_summary
    ELSE reply.value

\* ------------------------------------------------------------------------
\* IntegratedFacultyScraper.scrape_complete_faculty_data, the body of the loop
\* over faculty_data
\* ------------------------------------------------------------------------
\* dict.get(key, default)
dict_get(d, key, default) == IF key \in DOMAIN d THEN d[key] ELSE default

\* lines 772 and 674 replaced by a summarizer that always asks the model
summary_requested_always(papers_result) == TRUE

\* lines 772 and 674: whether the summarizer sends its request to the model
summary_requested(papers_result) ==
    "papers" \in DOMAIN papers_result /\ papers_result.papers # <<>>

\* lines 772-784
research_summary_for(faculty_info, papers_result, reply) ==
    IF "papers" \in DOMAIN papers_result
    THEN generate_research_summary_with_ai(faculty_info.name, papers_result.papers, reply)
    ELSE empty_research_summary

\* lines 793-795 raise KeyError or TypeError: the summary is no object, or lacks a key
summary_subscript_raises(research_summary) ==
    \/ research_summary.t # "obj"
    \/ research_summary.research_summary.t = "missing"
    \/ research_summary.research_keywords.t = "missing"
    \/ research_summary.research_areas.t = "missing"

\* lines 787-810
complete_prof_data(faculty_info, faculty_page_url, papers_result, research_summary) ==
    [name |-> faculty_info.name,
     email |-> faculty_info.email,
     title |-> dict_get(faculty_info, "title", <<>>),
     department |-> dict_get(faculty_info, "department", <<>>),
     profile_url |-> dict_get(faculty_info, "profile_url", faculty_page_url),
     research_summary |-> research_summary.research_summary,
     research_keywords |-> research_summary.research_keywords,
     research_areas |-> research_summary.research_areas,
     research_interests |-> dict_get(faculty_info, "research_interests", <<>>),
     top_papers |-> dict_get(papers_result, "papers", <<>>),
     total_papers_found |-> dict_get(papers_result, "total_papers_found", 0),
     data_sources |-> [basic_info |-> dict_get(faculty_info, "source", "faculty_page_email_extraction"),
                       papers |-> "google_scholar_api",
                       research_summary |-> "ai_generated"],
     scraping_notes |-> [extraction_method |-> dict_get(faculty_info, "source", "direct_email_search"),
                         confidence |-> dict_get(faculty_info, "confidence", "unknown"),
                         email_constructed |-> dict_get(faculty_info, "email_constructed", FALSE),
                         papers_error |-> IF "error" \in DOMAIN papers_result
                                          THEN Some(papers_result.error) ELSE None]]

\* ------------------------------------------------------------------------
\* main of faculty-scraper-proto.py: the URLs of the CSV and the output file
\* ------------------------------------------------------------------------
s_faculty == <<"f", "a", "c", "u", "l", "t", "y">>
s_dot_json == <<".", "j", "s", "o", "n">>
s_underscore == <<"_">>
s_dash == <<"-">>

\* str.replace(old, new), old not empty
RECURSIVE replace(_, _, _)
replace(s, old, new) ==
    IF Len(s) < Len(old) THEN s
    ELSE IF startswith(s, old)
         THEN new \o replace(SubSeq(s, Len(old) + 1, Len(s)), old, new)
         ELSE <<Head(s)>> \o replace(Tail(s), old, new)

\* urlparse(url).path: from the first "/" after the host up to "?" or "#"
urlpath(url) ==
    LET after == SubSeq(url, find(url, s_slash_slash) + 2 + Len(netloc(url)), Len(url))
        stops == {i \in DOMAIN after : after[i] \in {"?", "#"}}
        end == IF stops = {} THEN Len(after)
               ELSE (CHOOSE i \in stops : \A j \in stops : i <= j) - 1
    IN SubSeq(after, 1, end)

\* line 953: re.sub(r'[<>:"/\\|?*]', '_', filename)
sub_reserved(filename) ==
    [i \in DOMAIN filename |->
        IF filename[i] \in {"<", ">", ":", "\"", "/", "\\", "|", "?", "*"} THEN "_"
        ELSE filename[i]]

\* lines 946-953 with the path kept as it is: no character of it is replaced
output_filename_path_kept(faculty_url) ==
    LET domain == replace(netloc(faculty_url), s_www_dot, <<>>)
        path == IF urlpath(faculty_url) = <<>> THEN s_faculty ELSE urlpath(faculty_url)
    IN domain \o path \o s_dot_json

\* lines 946-953: the name of the output file of a URL
output_filename(faculty_url) ==
    LET domain == replace(netloc(faculty_url), s_www_dot, <<>>)
        replaced == replace(replace(urlpath(faculty_url), s_slash, s_underscore),
                            s_dash, s_underscore)
        path == IF replaced = <<>> \/ replaced = s_underscore THEN s_faculty ELSE replaced
    IN sub_reserved(domain \o path \o s_dot_json)

\* lines 911-919: the URLs read from the rows of the CSV
RECURSIVE read_faculty_urls(_)
read_faculty_urls(rows) ==
    IF rows = <<>> THEN <<>>
    ELSE LET row == Head(rows) IN
         (IF row # <<>> /\ strip(row[1]) # <<>> /\ startswith(strip(row[1]), s_http)
          THEN <<strip(row[1])>> ELSE <<>>)
         \o read_faculty_urls(Tail(rows))

\* lines 966-978: what json.dump writes for one professor; of the fields of the
\* record, those that draft-generator.py reads
json_dump_professor(prof) ==
    [t |-> "obj",
     name |-> JStr(prof.name),
     email |-> JStr(prof.email),
     research_summary |-> prof.research_summary,
     research_keywords |-> prof.research_keywords,
     research_areas |-> prof.research_areas,
     top_papers |-> JList(prof.top_papers)]

\* lines 967-973: the content of the output file of a URL
scraper_output(faculty_url, profs) ==
    [t |-> "obj",
     source_url |-> JStr(faculty_url),
     total_professors |-> JInt(Len(profs)),
     professors |-> JList([i \in DOMAIN profs |-> json_dump_professor(profs[i])])]

\* lines 976-977: open(filepath, 'w') and json.dump replace the file of that name
write_file(directory, filename, data) ==
    {f \in directory : f.filename # filename} \cup {[filename |-> filename, data |-> data]}

\* ------------------------------------------------------------------------
\* ProfessorEmailGenerator.load_all_professors
\* ------------------------------------------------------------------------
\* the truth value of a parsed JSON value
truthy(v) ==
    IF v.t = "str" THEN v.v # <<>>
    ELSE IF v.t = "list" THEN v.items # <<>>
    ELSE IF v.t = "int" THEN v.v # 0
    ELSE v.t = "obj"

\* line 72 asking for papers as well
load_keeps_with_papers(prof) ==
    truthy(prof.name) /\ truthy(prof.email) /\ truthy(prof.top_papers)

\* line 72: prof.get('name') and prof.get('email')
load_keeps(prof) == truthy(prof.name) /\ truthy(prof.email)

\* lines 73-76: the dict appended for an entry of the file
loaded_professor(prof, file) ==
    [name |-> prof.name.v,
     email |-> prof.email.v,
     research_summary |-> prof.research_summary,
     research_keywords |-> prof.research_keywords,
     research_areas |-> prof.research_areas,
     top_papers |-> prof.top_papers.items,
     source_file |-> file.filename,
     source_url |-> get_or(file.data.source_url, <<>>)]

\* lines 67-76: the professors loaded from one file
load_file(file) ==
    IF file.data.t # "obj" THEN <<>>
    ELSE IF file.data.professors.t # "list" THEN <<>>
    ELSE LET kept == SelectSeq(file.data.professors.items, load_keeps)
         IN [i \in DOMAIN kept |-> loaded_professor(kept[i], file)]

\* lines 53-84, json_files being what directory.glob listed, in its order
load_all_professors(directory, json_files) ==
    IF directory = None THEN <<>>
    ELSE Flatten([i \in DOMAIN json_files |-> load_file(json_files[i])])

\* ------------------------------------------------------------------------
\* ProfessorEmailGenerator.generate_all_emails
\* ------------------------------------------------------------------------
\* lines 307-326 without the test of the Gmail password
generate_all_emails_aborts_no_password(template_exists, api_key, drafts, gmail_password) ==
    ~template_exists \/ ~api_key

\* lines 307-326: the tests that end the run before anything is loaded
generate_all_emails_aborts(template_exists, api_key, drafts, gmail_password) ==
    ~template_exists \/ ~api_key \/ (drafts /\ ~gmail_password)

\* generate_personalized_email, lines 132-197: the completion is the email, and
\* any exception gives the result that failed
generate_personalized_email(professor, reply) ==
    IF reply.kind = "exception"
    THEN [professor_name |-> professor.name, professor_email |-> professor.email,
          success |-> FALSE]
    ELSE [professor_name |-> professor.name, professor_email |-> professor.email,
          source_file |-> professor.source_file, success |-> TRUE]

\* lines 348-350
successful_after(emails, email_result) ==
    IF email_result.success THEN Append(emails, email_result) ELSE emails

\* lines 363-365, the result dropped
failed_after_dropped(emails, email_result) == emails

\* lines 363-365
failed_after(emails, email_result) ==
    IF email_result.success THEN emails ELSE Append(emails, email_result)

\* faculty-scraper-proto.py lines 961-964 and 980-993: where main stands after
\* one URL. Both handlers of the loop end in continue
loop_after_url_stops_on_error(outcome) ==
    IF outcome.raised THEN "scraper_aborted" ELSE "scrape_urls"

loop_after_url(outcome) == "scrape_urls"

\* how the pass of the loop over one URL ended
url_outcome(outcome) ==
    IF outcome.raised THEN "raised"
    ELSE IF outcome.professors = <<>> THEN "none" ELSE "saved"

\* what the server can answer to LOGIN, SELECT and APPEND. imaplib raises when
\* LOGIN is refused and on a BAD answer or a lost connection; SELECT and APPEND
\* hand a NO back to their caller
ImapReplies ==
    [login : {"OK", "error"}, select : {"OK", "NO", "error"}, append : {"OK", "NO", "error"}]

\* draft-generator.py lines 281-294: the commands create_gmail_draft sends,
\* what it returns, and whether the server has stored the message
create_gmail_draft(replies) ==
    IF replies.login = "error"
    THEN [commands |-> <<"LOGIN">>, returned |-> FALSE, stored |-> FALSE]
    ELSE IF replies.select = "error"
    THEN [commands |-> <<"LOGIN", "SELECT">>, returned |-> FALSE, stored |-> FALSE]
    ELSE [commands |-> <<"LOGIN", "SELECT", "APPEND">>,
          returned |-> replies.append # "error",
          stored |-> replies.append = "OK"]

\* ------------------------------------------------------------------------
\* ProfessorEmailGenerator.select_best_paper
\* ------------------------------------------------------------------------
relevant_keywords ==
    << <<"h", "o", "u", "s", "i", "n", "g">>,
       <<"u", "r", "b", "a", "n">>,
       <<"n", "e", "i", "g", "h", "b", "o", "r", "h", "o", "o", "d">>,
       <<"g", "e", "n", "t", "r", "i", "f", "i", "c", "a", "t", "i", "o", "n">>,
       <<"d", "i", "s", "p", "l", "a", "c", "e", "m", "e", "n", "t">>,
       <<"r", "e", "a", "l", " ", "e", "s", "t", "a", "t", "e">>,
       <<"p", "r", "o", "p", "e", "r", "t", "y">>,
       <<"e", "c", "o", "n", "o", "m", "i", "c">>,
       <<"f", "i", "n", "a", "n", "c", "e">>,
       <<"f", "i", "n", "a", "n", "c", "i", "a", "l">>,
       <<"p", "r", "e", "d", "i", "c", "t", "i", "o", "n">>,
       <<"m", "o", "d", "e", "l">>,
       <<"r", "i", "s", "k">>,
       <<"c", "o", "m", "m", "u", "n", "i", "t", "y">>,
       <<"d", "e", "m", "o", "g", "r", "a", "p", "h", "i", "c">>,
       <<"s", "p", "a", "t", "i", "a", "l">>,
       <<"g", "e", "o", "g", "r", "a", "p", "h", "i", "c">>,
       <<"p", "o", "l", "i", "c", "y">>,
       <<"d", "e", "v", "e", "l", "o", "p", "m", "e", "n", "t">>,
       <<"i", "n", "e", "q", "u", "a", "l", "i", "t", "y">>,
       <<"m", "a", "c", "h", "i", "n", "e", " ", "l", "e", "a", "r", "n", "i", "n", "g">>,
       <<"d", "a", "t", "a">>,
       <<"a", "n", "a", "l", "y", "s", "i", "s">>,
       <<"f", "o", "r", "e", "c", "a", "s", "t", "i", "n", "g">> >>

\* str.count(sub): the occurrences of sub that do not overlap, from the left
RECURSIVE count(_, _)
count(s, sub) ==
    IF Len(s) < Len(sub) THEN 0
    ELSE IF startswith(s, sub) THEN 1 + count(SubSeq(s, Len(sub) + 1, Len(s)), sub)
    ELSE count(Tail(s), sub)

RECURSIVE sum_counts(_, _)
sum_counts(text, keywords) ==
    IF keywords = <<>> THEN 0
    ELSE count(text, lower(Head(keywords))) + sum_counts(text, Tail(keywords))

\* lines 109-116
relevance_score(paper) ==
    sum_counts(lower(paper.title) \o <<" ">> \o lower(paper.snippet), relevant_keywords)

\* lines 119-120, in hundredths: relevance_score * 10 + citations / 100. For
\* cited_by below 1000 the float orders and equates papers as this integer does
total_score(paper) == relevance_score(paper) * 1000 + paper.cited_by

\* list.sort(key=total_score, reverse=True) placing a paper before its equals
RECURSIVE sorted_by_total_score_unstable(_)
sorted_by_total_score_unstable(papers) ==
    IF papers = <<>> THEN <<>>
    ELSE LET front == sorted_by_total_score_unstable(SubSeq(papers, 1, Len(papers) - 1))
             last == papers[Len(papers)]
             before == SelectSeq(front, LAMBDA p : total_score(p) > total_score(last))
             after == SelectSeq(front, LAMBDA p : total_score(p) <= total_score(last))
         IN before \o <<last>> \o after

\* line 129: list.sort(key=total_score, reverse=True), which is stable
RECURSIVE sorted_by_total_score(_)
sorted_by_total_score(papers) ==
    IF papers = <<>> THEN <<>>
    ELSE LET front == sorted_by_total_score(SubSeq(papers, 1, Len(papers) - 1))
             last == papers[Len(papers)]
             before == SelectSeq(front, LAMBDA p : total_score(p) >= total_score(last))
             after == SelectSeq(front, LAMBDA p : total_score(p) < total_score(last))
         IN before \o <<last>> \o after

\* lines 91-130: the paper returned, as Some(paper), or None
select_best_paper(professor) ==
    IF professor.top_papers = <<>> THEN None
    ELSE Some(sorted_by_total_score(professor.top_papers)[1])
\* ------------------------------------------------------------------------
\* State
\* ------------------------------------------------------------------------
VARIABLES
    fn_arg,            \* the arguments of a function called on its own
    fn_ret,            \* what it returned: <<>> before the call, <<value>> after
    pc,                \* where scrape_complete_faculty_data stands
    serpapi_key,       \* self.serpapi_key: <<>> when the variable is not set
    visited_urls,      \* self.visited_urls
    faculty_page_url,  \* the argument of scrape_complete_faculty_data
    soup,              \* the parsed faculty page, until its last use
    faculty_data,      \* the candidates
    faculty_links,     \* scrape_faculty_from_links: the profile links, until it returns
    link_index,        \* scrape_faculty_from_links: the next link, from 1
    faculty_index,     \* scrape_complete_faculty_data: the next candidate, from 1
    papers_result,     \* the lookup of the current candidate
    professors,        \* the records built so far
    returned,          \* None, or Some(list) once the call has returned
    unique_emails,     \* history: the addresses find_all_faculty_emails_and_names kept
    direct_count,      \* history: how many candidates it returned
    fallback_requests, \* history: what scrape_faculty_from_links has sent
    page_requests,     \* history: the URLs passed to get_page_content in this call
    request_log,       \* history: the lookups and summary requests of this call, in order
    environ,           \* the environment variables that are set
    csv_file,          \* faculty-urls.csv: None, or Some(rows)
    template_file,     \* whether email-template.txt exists
    site,              \* which site the scraper is pointed at: it decides what the
                       \* pages and the answers of the services can be
    sessions,          \* per URL and key, what a call of scrape_complete_faculty_data
                       \* made by main can come to
    professor_info,    \* the directory professor-info: None, or Some(set of files)
    script_pc,         \* where the script that runs stands
    effects,           \* what the run has done to the outside so far
    faculty_urls,      \* main of the scraper: the URLs read from the CSV
    url_index,         \* main of the scraper: the next URL, from 1
    saved_urls,        \* history: the URLs whose file the run has written
    attempted,         \* history: the URLs the loop has gone through, and how each ended
    written,           \* history: per file, the records it was last written from
    create_drafts,     \* the argument of generate_all_emails
    loaded_professors, \* generate_all_emails: what load_all_professors returned
    prof_index,        \* generate_all_emails: the next professor, from 1
    successful_emails, \* generate_all_emails: the results that succeeded
    failed_emails,     \* generate_all_emails: the results that failed
    successful_drafts, \* generate_all_emails: the drafts created
    drafts_stored      \* history: the addressees of the messages the server stored

pureVars == <<fn_arg, fn_ret>>
histVars == <<unique_emails, direct_count, fallback_requests>>
worldVars == <<environ, csv_file, template_file, site, sessions>>
scriptVars == <<professor_info, script_pc, effects, faculty_urls, url_index, saved_urls, attempted,
                written, create_drafts, loaded_professors, prof_index, successful_emails,
                failed_emails, successful_drafts, drafts_stored>>
sessionVars == <<pc, visited_urls, faculty_page_url, soup, faculty_data, faculty_links,
                 link_index, faculty_index, papers_result, professors, returned, unique_emails,
                 direct_count, fallback_requests, page_requests, request_log>>
scrapeVars == <<pc, serpapi_key, visited_urls, faculty_page_url, soup, faculty_data,
                faculty_links, link_index, faculty_index, papers_result, professors, returned,
                unique_emails, direct_count, fallback_requests, page_requests, request_log,
          worldVars, scriptVars>>
vars == <<fn_arg, fn_ret, pc, serpapi_key, visited_urls, faculty_page_url, soup, faculty_data,
          faculty_links, link_index, faculty_index, papers_result, professors, returned,
          unique_emails, direct_count, fallback_requests, page_requests, request_log,
          worldVars, scriptVars>>

\* no script has run yet
ScriptsIdle ==
    /\ professor_info = None
    /\ script_pc = "idle"
    /\ effects = {}
    /\ faculty_urls = <<>>
    /\ url_index = 1
    /\ saved_urls = <<>>
    /\ attempted = <<>>
    /\ written = {}
    /\ create_drafts = TRUE
    /\ loaded_professors = <<>>
    /\ prof_index = 1
    /\ successful_emails = <<>>
    /\ failed_emails = <<>>
    /\ successful_drafts = 0
    /\ drafts_stored = <<>>

\* a scraper constructed outside the scripts
NoScript ==
    /\ environ = {"OPENAI_API_KEY", "SERPAPI_API_KEY", "EMAIL_APP_PW"}
    /\ csv_file = None
    /\ template_file = FALSE
    /\ site = "department"
    /\ sessions = {}
    /\ ScriptsIdle

\* the scraper after __init__, before any call
ScraperConstructed ==
    /\ pc = "idle"
    /\ visited_urls = {}
    /\ faculty_page_url = <<>>
    /\ soup = <<>>
    /\ faculty_data = <<>>
    /\ faculty_links = <<>>
    /\ link_index = 1
    /\ faculty_index = 1
    /\ papers_result = None
    /\ professors = <<>>
    /\ returned = None
    /\ unique_emails = <<>>
    /\ direct_count = 0
    /\ fallback_requests = {}
    /\ page_requests = {}
    /\ request_log = <<>>

\* a function called on its own, outside a scraping session
InitAlone ==
    /\ ScraperConstructed
    /\ NoScript
    /\ serpapi_key = s_key

\* ------------------------------------------------------------------------
\* Candidate names handed to is_valid_professor_name
\* ------------------------------------------------------------------------
MaxNameWords == 3

NameWords == {w_Jane, w_Smith, w_jane, w_J, w_OConnor, w_Computer, w_Science,
              w_Robotics, w_SmithJones}

NameTitles == {<<>>, t_Dr_dot \o sp, t_Prof \o sp, t_Professor \o sp, t_Dr_dot}

RECURSIVE WordLists(_)
WordLists(n) ==
    IF n = 0 THEN {<<>>}
    ELSE WordLists(n - 1) \cup
         {ws \o <<w>> : ws \in {x \in WordLists(n - 1) : Len(x) = n - 1}, w \in NameWords}

\* " ".join(words)
RECURSIVE join(_)
join(ws) ==
    IF ws = <<>> THEN <<>>
    ELSE IF Len(ws) = 1 THEN ws[1]
    ELSE ws[1] \o sp \o join(Tail(ws))

NameInputs == {t \o join(ws) : t \in NameTitles, ws \in WordLists(MaxNameWords)}

InitName ==
    /\ fn_arg \in NameInputs
    /\ fn_ret = <<>>
    /\ InitAlone

CallIsValidProfessorName ==
    /\ fn_ret = <<>>
    /\ fn_ret' = <<is_valid_professor_name(fn_arg)>>
    /\ UNCHANGED <<fn_arg, scrapeVars>>

NextName == CallIsValidProfessorName

SpecName == InitName /\ [][NextName]_vars

\* ------------------------------------------------------------------------
\* C2
\* ------------------------------------------------------------------------
name_JaneSmith == w_Jane \o sp \o w_Smith
name_ComputerScience == w_Computer \o sp \o w_Science

\* a word that starts with a capital letter
Capitalized(word) == Len(word) >= 1 /\ word[1] \in UpperSet

CapitalizedWords(name) ==
    LET words == split(re_sub_title(name)) IN
    Cardinality({i \in DOMAIN words : Capitalized(words[i])})

HasGenericPhrase(name) ==
    \E t \in DOMAIN generic_terms : contains(lower(re_sub_title(name)), generic_terms[t])

\* C2: is_valid_professor_name returns true only if the name, with a leading
\* title stripped, has at least two capitalized words and contains none of the
\* denylisted generic phrases; "Computer Science" is rejected and "Jane Smith"
\* is accepted.
C2_ValidNameNecessary ==
    fn_ret # <<>> =>
        /\ fn_ret[1] => (CapitalizedWords(fn_arg) >= 2 /\ ~HasGenericPhrase(fn_arg))
        /\ fn_arg = name_ComputerScience => ~fn_ret[1]
        /\ fn_arg = name_JaneSmith => fn_ret[1]

C2_Witness ==
    /\ fn_ret = <<TRUE>>
    /\ fn_arg = t_Dr_dot \o sp \o w_Jane \o sp \o w_OConnor \o sp \o w_J

\* ------------------------------------------------------------------------
\* find_all_faculty_emails_and_names called on its own
\* ------------------------------------------------------------------------
MaxPageItems == 2
MaxReplyEntries == 2

HarvestUsers == {u_info, u_Info, u_no_reply, u_jane_smith, u_information}

name_JohnDoe == w_John \o sp \o w_Doe
email_jane == address(u_jane_smith, d_cs_example)
email_info == address(u_info, d_cs_example)
email_jdoe == address(u_jdoe, d_x)

HarvestItems ==
    {[kind |-> k, user |-> u, domain |-> d_cs_example] :
        k \in {"text", "obfuscated"}, u \in HarvestUsers}
    \cup {[kind |-> "mailto", user |-> u, domain |-> d_cs_example, label |-> name_JaneSmith] :
            u \in HarvestUsers}
    \cup {[kind |-> "text", user |-> u_jane_smith, domain |-> d_office_x],
          [kind |-> "text", user |-> u_cs_list, domain |-> d_cs_example]}

RECURSIVE ListsUpTo(_, _)
ListsUpTo(S, n) ==
    IF n = 0 THEN {<<>>}
    ELSE ListsUpTo(S, n - 1) \cup
         {l \o <<x>> : l \in {y \in ListsUpTo(S, n - 1) : Len(y) = n - 1}, x \in S}

HarvestPages == ListsUpTo(HarvestItems, MaxPageItems)

PairEntry(name, email) ==
    [t |-> "obj", email |-> email, name |-> name, confidence |-> JMissing]

\* the replies the pairing prompt is answered with when arbitrary pages are harvested
HarvestReplies ==
    {ReplyException, ReplyWrapped(JList(<<PairEntry(JStr(name_JaneSmith), JStr(email_jane))>>))}
    \cup {ReplyJson(JList(<<PairEntry(JStr(name_JaneSmith), JStr(e))>>)) :
            e \in {email_jane, email_info, address(u_Info, d_cs_example)}}

\* the page of the mailto scenario
JanePage == <<[kind |-> "mailto", user |-> u_jane_smith, domain |-> d_cs_example,
               label |-> name_JaneSmith]>>

PairEntries ==
    {PairEntry(n, e) :
        n \in {JStr(name_JaneSmith), JStr(name_JohnDoe), JStr(name_ComputerScience),
               JMissing, JNull},
        e \in {JStr(email_jane), JStr(email_jdoe), JStr(<<" ">> \o email_jane), JMissing, JNull}}
    \cup {JStr(name_JaneSmith)}

\* the replies the pairing prompt is answered with in the mailto scenario
PairReplies ==
    {ReplyException, ReplyText, ReplyJson(JNull), ReplyJson(PairEntry(JMissing, JMissing))}
    \cup {ReplyJson(JList(l)) : l \in ListsUpTo(PairEntries, MaxReplyEntries)}
    \cup {ReplyWrapped(JList(<<e>>)) : e \in PairEntries}

JaneReply == ReplyJson(JList(<<PairEntry(JStr(name_JaneSmith), JStr(email_jane))>>))

InitHarvest ==
    /\ fn_arg \in {[soup |-> p, faculty_page_url |-> url_people, reply |-> r] :
                      p \in HarvestPages, r \in HarvestReplies}
                  \cup {[soup |-> JanePage, faculty_page_url |-> url_people, reply |-> r] :
                          r \in PairReplies}
    /\ fn_ret = <<>>
    /\ InitAlone

CallFindAllFacultyEmailsAndNames ==
    /\ fn_ret = <<>>
    /\ LET all_emails == harvest_all_emails(fn_arg.soup) IN
       fn_ret' = << [all_emails |-> all_emails,
                     unique_emails |-> filter_unique_emails(all_emails),
                     faculty_data |-> find_all_faculty_emails_and_names(
                                          fn_arg.soup, fn_arg.faculty_page_url, fn_arg.reply)] >>
    /\ UNCHANGED <<fn_arg, scrapeVars>>

NextHarvest == CallFindAllFacultyEmailsAndNames

SpecHarvest == InitHarvest /\ [][NextHarvest]_vars

\* ------------------------------------------------------------------------
\* C1
\* ------------------------------------------------------------------------
\* the part of an address before its first "@"
LocalPart(email) == SubSeq(email, 1, find(email, s_at) - 1)

Administrative(email) == \E p \in DOMAIN AdminPrefixes : lower(LocalPart(email)) = AdminPrefixes[p]

\* C1: is_faculty_email returns false for every harvested address whose local
\* part is a denylisted administrative prefix, and no such address is in the
\* filtered list unique_emails, whichever pattern harvested it.
C1_AdminAddressesFiltered ==
    fn_ret # <<>> =>
        /\ \A i \in DOMAIN fn_ret[1].all_emails :
               Administrative(fn_ret[1].all_emails[i]) => ~is_faculty_email(fn_ret[1].all_emails[i])
        /\ \A i \in DOMAIN fn_ret[1].unique_emails : ~Administrative(fn_ret[1].unique_emails[i])
        /\ \A i \in DOMAIN fn_ret[1].faculty_data : ~Administrative(fn_ret[1].faculty_data[i].email)

\* a page with an administrative mailto address and a personal obfuscated one
C1_Witness ==
    /\ fn_ret # <<>>
    /\ fn_arg.soup = <<[kind |-> "mailto", user |-> u_Info, domain |-> d_cs_example,
                        label |-> name_JaneSmith],
                       [kind |-> "obfuscated", user |-> u_jane_smith, domain |-> d_cs_example]>>
    /\ fn_ret[1].all_emails = <<address(u_Info, d_cs_example), email_jane>>
    /\ fn_ret[1].unique_emails = <<email_jane>>

\* ------------------------------------------------------------------------
\* C9
\* ------------------------------------------------------------------------
IsJaneCandidate(c) == c.name = name_JaneSmith /\ c.email = email_jane

Paired == fn_ret # <<>> /\ fn_ret[1].unique_emails # <<>>

\* C17: when the pairing completion is not valid JSON as a whole but holds a
\* bracketed JSON array, extract_email_name_pairs_with_ai parses the bracketed
\* text and returns the valid candidates of that array.
C17_BracketedArrayParsed ==
    (Paired /\ fn_arg.reply.kind = "wrapped") =>
        fn_ret[1].faculty_data =
            find_all_faculty_emails_and_names(fn_arg.soup, fn_arg.faculty_page_url,
                                              ReplyJson(fn_arg.reply.value))

\* an entry of the reply that names a plausible professor and a harvested address
ValidEntry(entry, emails) ==
    /\ entry.t = "obj"
    /\ entry.name.t = "str"
    /\ entry.email.t = "str"
    /\ is_valid_professor_name(strip(entry.name.v))
    /\ strip(entry.email.v) \in Range(emails)

\* the (name, email) pairs of a list of candidates or of reply entries
PairsOfCandidates(cs) == [i \in DOMAIN cs |-> <<cs[i].name, cs[i].email>>]
PairsOfEntries(es) == [i \in DOMAIN es |-> <<strip(es[i].name.v), strip(es[i].email.v)>>]

\* C18: an invalid entry of the pairing reply (missing or null name or email,
\* implausible name, address not among the candidates, entry that is no
\* object) is skipped alone: every valid entry of the same reply is returned.
C18_InvalidEntrySkippedAlone ==
    (Paired /\ fn_arg.reply.kind = "json" /\ fn_arg.reply.value.t = "list") =>
        LET valid(e) == ValidEntry(e, fn_ret[1].unique_emails) IN
        PairsOfCandidates(fn_ret[1].faculty_data) =
            Take(PairsOfEntries(SelectSeq(fn_arg.reply.value.items, valid)), FACULTY_LINKS_LIMIT)

\* C19: every candidate returned by extract_email_name_pairs_with_ai has an
\* email of the list passed in, hence one harvested from the page, and a name
\* accepted by is_valid_professor_name, whatever the language model returns.
C19_CandidatesAreHarvested ==
    Paired =>
        \A i \in DOMAIN fn_ret[1].faculty_data :
            /\ fn_ret[1].faculty_data[i].email \in Range(fn_ret[1].unique_emails)
            /\ fn_ret[1].faculty_data[i].email \in Range(fn_ret[1].all_emails)
            /\ is_valid_professor_name(fn_ret[1].faculty_data[i].name)

\* the reply pairs John Doe with an address the page does not hold, and Jane
\* Smith with the one it holds
C19_Witness ==
    /\ Paired
    /\ fn_arg.soup = JanePage
    /\ fn_arg.reply = ReplyJson(JList(<<PairEntry(JStr(name_JohnDoe), JStr(email_jdoe)),
                                        PairEntry(JStr(name_JaneSmith), JStr(email_jane))>>))
    /\ PairsOfCandidates(fn_ret[1].faculty_data) = <<<<name_JaneSmith, email_jane>>>>

\* ------------------------------------------------------------------------
\* The publication lookup called on its own: one pass of the loop of
\* scrape_complete_faculty_data, and the lookup of the API test script
\* ------------------------------------------------------------------------
MaxResults == 6
MaxCitations == 2

Digits == <<"1", "2", "3", "4", "5", "6", "7", "8", "9">>

\* the i-th result of a response is titled "P<i>"
TitleAt(i) == <<"P", Digits[i]>>

Cited(total) == [t |-> "obj", cited_by |-> [t |-> "obj", total |-> total]]

Result(title, inline_links) == [t |-> "obj", title |-> title, inline_links |-> inline_links]

\* every shape of inline_links
InlineShapes ==
    {JMissing, JNull, [t |-> "obj", cited_by |-> JMissing], [t |-> "obj", cited_by |-> JNull],
     Cited(JMissing)}
    \cup {Cited(JInt(n)) : n \in 0..MaxCitations}

\* results whose citation count is absent or 1..MaxCitations
PlainShapes == {JMissing} \cup {Cited(JInt(n)) : n \in 1..MaxCitations}

Titled(shapes) == [i \in DOMAIN shapes |-> Result(JStr(TitleAt(i)), shapes[i])]

ExampleResults == Titled(<<Cited(JInt(5)), Cited(JInt(50)), Cited(JInt(10))>>)

OrganicResults ==
    {Titled(l) : l \in ListsUpTo(PlainShapes, MaxResults)}
    \cup {Titled(l) : l \in ListsUpTo(InlineShapes, 2)}
    \cup {ExampleResults,
          <<JStr(s_summary)>>,
          <<Result(JMissing, Cited(JInt(1)))>>,
          <<Result(JStr(TitleAt(1)), Cited(JInt(1))), JNull>>}

Body(error, organic_results) ==
    [kind |-> "json", data |-> [t |-> "obj", error |-> error, organic_results |-> organic_results]]

ApiFailures ==
    {[kind |-> "timeout"], [kind |-> "connection"], [kind |-> "http", status |-> s_500],
     [kind |-> "unparsable", raises |-> "RequestsJSONDecodeError"],
     [kind |-> "unparsable", raises |-> "ValueError"],
     [kind |-> "json", data |-> JNull],
     [kind |-> "json", data |-> JList(<<>>)],
     Body(JStr(s_quota), JMissing),
     Body(JStr(s_quota), JList(ExampleResults)),
     Body(JMissing, JMissing),
     Body(JMissing, JNull)}

ApiResponses == ApiFailures \cup {Body(JMissing, JList(l)) : l \in OrganicResults}

SummaryObject(summary, keywords, areas) ==
    [t |-> "obj", research_summary |-> summary, research_keywords |-> keywords,
     research_areas |-> areas]

GoodSummary == ReplyJson(SummaryObject(JStr(s_summary), JList(<<>>), JList(<<>>)))

SummaryReplies ==
    {ReplyException, ReplyText, GoodSummary,
     ReplyJson(SummaryObject(JStr(s_summary), JMissing, JList(<<>>))),
     ReplyJson(JNull),
     ReplyJson(JList(<<>>))}

candidate_jane ==
    [name |-> name_JaneSmith, email |-> email_jane, source |-> "ai_page_analysis",
     confidence |-> s_medium]

LookupArgs ==
    {[serpapi_key |-> s_key, response |-> r, reply |-> GoodSummary] : r \in ApiResponses}
    \cup {[serpapi_key |-> <<>>, response |-> r, reply |-> GoodSummary] :
            r \in {[kind |-> "timeout"], Body(JMissing, JList(ExampleResults))}}
    \cup {[serpapi_key |-> s_key, response |-> r, reply |-> s] :
            r \in {Body(JMissing, JList(<<>>)), Body(JMissing, JList(ExampleResults))},
            s \in SummaryReplies}

InitLookup ==
    /\ fn_arg \in LookupArgs
    /\ fn_ret = <<>>
    /\ InitAlone

\* lines 761-812 for one candidate: the lookup, the summary, the record; record
\* is None when building it raises
CallProcessFaculty ==
    /\ fn_ret = <<>>
    /\ LET result == get_professor_papers_direct_search(
                                fn_arg.serpapi_key, candidate_jane.name, candidate_jane.email,
                                fn_arg.response)
           research_summary == research_summary_for(candidate_jane, result, fn_arg.reply)
       IN fn_ret' = << [fn |-> "scrape_complete_faculty_data",
                        papers_result |-> result,
                        record |-> IF summary_subscript_raises(research_summary)
                                   THEN None
                                   ELSE Some(complete_prof_data(candidate_jane, url_people,
                                                                result, research_summary))] >>
    /\ UNCHANGED <<fn_arg, scrapeVars>>

CallTestDirectSearch ==
    /\ fn_ret = <<>>
    /\ fn_ret' = << [fn |-> "test_get_professor_papers_direct_search",
                     result |-> test_get_professor_papers_direct_search(
                                    candidate_jane.name, candidate_jane.email, fn_arg.response)] >>
    /\ UNCHANGED <<fn_arg, scrapeVars>>

NextLookup == CallProcessFaculty \/ CallTestDirectSearch

SpecLookup == InitLookup /\ [][NextLookup]_vars

\* ------------------------------------------------------------------------
\* C3, C4, C5, C7, C8
\* ------------------------------------------------------------------------
Scraped == fn_ret # <<>> /\ fn_ret[1].fn = "scrape_complete_faculty_data"

Tested == fn_ret # <<>> /\ fn_ret[1].fn = "test_get_professor_papers_direct_search"

\* the response is a 200 whose body is an object without an error field
AnsweredWithoutError ==
    /\ fn_arg.serpapi_key # <<>>
    /\ fn_arg.response.kind = "json"
    /\ fn_arg.response.data.t = "obj"
    /\ fn_arg.response.data.error.t = "missing"

\* the response carries a list of results that are objects with well-formed fields
AnsweredWithResults ==
    /\ AnsweredWithoutError
    /\ fn_arg.response.data.organic_results.t = "list"
    /\ fn_arg.response.data.organic_results.items # <<>>
    /\ \A i \in DOMAIN fn_arg.response.data.organic_results.items :
           LET r == fn_arg.response.data.organic_results.items[i] IN
           /\ r.t = "obj"
           /\ r.inline_links.t \in {"missing", "obj"}
           /\ r.inline_links.t = "obj" => r.inline_links.cited_by.t \in {"missing", "obj"}

Results == fn_arg.response.data.organic_results.items

\* inline_links.cited_by.total when the field is present, else 0
TotalOrZero(r) ==
    IF r.inline_links.t = "obj" /\ r.inline_links.cited_by.t = "obj"
       /\ r.inline_links.cited_by.total.t = "int"
    THEN r.inline_links.cited_by.total.v
    ELSE 0

\* where the i-th result stands after a stable sort by descending citations
StablePosition(i) ==
    1 + Cardinality({j \in DOMAIN Results : TotalOrZero(Results[j]) > TotalOrZero(Results[i])})
      + Cardinality({j \in 1..(i - 1) : TotalOrZero(Results[j]) = TotalOrZero(Results[i])})

Min(a, b) == IF a < b THEN a ELSE b

\* `out` is the first k papers of the stably sorted results
SortedTop(out, k) ==
    /\ Len(out) = Min(k, Len(Results))
    /\ \A i \in DOMAIN Results :
           StablePosition(i) <= k =>
               /\ out[StablePosition(i)].title = get_or(Results[i].title, s_NA)
               /\ out[StablePosition(i)].cited_by = TotalOrZero(Results[i])

Ranked(out) == \A i \in DOMAIN out : "rank" \in DOMAIN out[i] /\ out[i].rank = i

CitationsOf(out) == [i \in DOMAIN out |-> out[i].cited_by]

RanksOf(out) == [i \in DOMAIN out |-> out[i].rank]

\* C3 as stated: the publication lookup returns the papers by descending
\* citation count, equal counts in response order, truncated to the top K, with
\* the ranks 1..K assigned in the returned order.
C3_SortedTruncatedRanked ==
    /\ (Scraped /\ AnsweredWithResults) =>
           /\ SortedTop(fn_ret[1].papers_result.papers, TOP_PAPERS)
           /\ Ranked(fn_ret[1].papers_result.papers)
    /\ (Tested /\ AnsweredWithResults) =>
           /\ SortedTop(fn_ret[1].result.top_papers, TEST_TOP_PAPERS)
           /\ Ranked(fn_ret[1].result.top_papers)

\* C3 as amended: both lookups return the papers by descending citation count,
\* equal counts in response order, truncated to the top K (5 in the scraper, 3
\* in the API test script); the API test script alone assigns the ranks
\* 1..min(K, n) in the returned order, the scraper's papers carry no rank:
\* [5, 50, 10] comes back as [50, 10, 5], with ranks [1, 2, 3] in the test script.
C3_SortedTruncated ==
    /\ (Scraped /\ AnsweredWithResults) =>
           /\ SortedTop(fn_ret[1].papers_result.papers, TOP_PAPERS)
           /\ \A i \in DOMAIN fn_ret[1].papers_result.papers :
                  "rank" \notin DOMAIN fn_ret[1].papers_result.papers[i]
           /\ Results = ExampleResults =>
                  CitationsOf(fn_ret[1].papers_result.papers) = <<50, 10, 5>>
    /\ (Tested /\ AnsweredWithResults) =>
           /\ SortedTop(fn_ret[1].result.top_papers, TEST_TOP_PAPERS)
           /\ Ranked(fn_ret[1].result.top_papers)
           /\ Results = ExampleResults =>
                  /\ CitationsOf(fn_ret[1].result.top_papers) = <<50, 10, 5>>
                  /\ RanksOf(fn_ret[1].result.top_papers) = <<1, 2, 3>>

\* six results, two pairs of equal counts, more results than either lookup keeps
C3_Witness ==
    /\ Tested
    /\ AnsweredWithResults
    /\ Len(Results) = 6
    /\ [i \in DOMAIN Results |-> TotalOrZero(Results[i])] = <<1, 2, 1, 0, 2, 2>>
    /\ [i \in 1..3 |-> fn_ret[1].result.top_papers[i].title] = <<TitleAt(2), TitleAt(5), TitleAt(6)>>

NoPapersMessage == s_err_no_papers \o candidate_jane.name

\* C4: a 200 without error field whose organic_results are missing or empty
\* yields the payload error = "No papers found for <name>" without a papers
\* key, and the record has top_papers = [], total_papers_found = 0 and that
\* message as papers_error.
C4_NoPapersFound ==
    (Scraped /\ AnsweredWithoutError
        /\ \/ fn_arg.response.data.organic_results.t = "missing"
           \/ /\ fn_arg.response.data.organic_results.t = "list"
              /\ fn_arg.response.data.organic_results.items = <<>>) =>
        /\ "papers" \notin DOMAIN fn_ret[1].papers_result
        /\ "error" \in DOMAIN fn_ret[1].papers_result
        /\ fn_ret[1].papers_result.error = NoPapersMessage
        /\ fn_ret[1].record # None
        /\ fn_ret[1].record[1].top_papers = <<>>
        /\ fn_ret[1].record[1].total_papers_found = 0
        /\ fn_ret[1].record[1].scraping_notes.papers_error = Some(NoPapersMessage)

C4_Witness ==
    /\ Scraped
    /\ fn_arg.response = Body(JMissing, JList(<<>>))
    /\ fn_ret[1].record # None
    /\ fn_ret[1].record[1].scraping_notes.papers_error = Some(NoPapersMessage)

\* C5: whatever the request does, the lookup raises nothing and returns a dict
\* with exactly one of the keys error and papers, and a papers list is not empty.
C5_ErrorOrPapers ==
    Scraped =>
        /\ "exc" \notin DOMAIN fn_ret[1].papers_result
        /\ ("error" \in DOMAIN fn_ret[1].papers_result) # ("papers" \in DOMAIN fn_ret[1].papers_result)
        /\ "papers" \in DOMAIN fn_ret[1].papers_result => fn_ret[1].papers_result.papers # <<>>

\* a result that is no object makes the loop raise AttributeError
C5_Witness ==
    /\ Scraped
    /\ fn_arg.serpapi_key # <<>>
    /\ fn_arg.response = Body(JMissing, JList(<<Result(JStr(TitleAt(1)), Cited(JInt(1))), JNull>>))
    /\ fn_ret[1].papers_result = [error |-> s_err_unexpected \o s_detail]

\* C7: top_papers of a record has at most 5 entries, and exactly
\* min(5, total_papers_found).
C7_TopPapersBounded ==
    (Scraped /\ fn_ret[1].record # None) =>
        /\ Len(fn_ret[1].record[1].top_papers) <= 5
        /\ Len(fn_ret[1].record[1].top_papers) = Min(5, fn_ret[1].record[1].total_papers_found)

C7_Witness ==
    /\ Scraped
    /\ fn_ret[1].record # None
    /\ fn_ret[1].record[1].total_papers_found = 6
    /\ Len(fn_ret[1].record[1].top_papers) = 5

MaxLinks == 53
MaxReplyUrls == 13

\* the URL of the i-th profile of the directory
LinkUrl(i) == url_people \o <<"/", Digits[(i \div 9) + 1], Digits[(i % 9) + 1]>>

\* the href of the i-th link of the directory page: relative for even i
LinkHref(i) ==
    IF i % 2 = 0 THEN s_slash \o <<"p", "e", "o", "p", "l", "e", "/",
                                      Digits[(i \div 9) + 1], Digits[(i % 9) + 1]>>
    ELSE LinkUrl(i)

LinkItems(n) == [i \in 1..n |-> [kind |-> "link", href |-> LinkHref(i), label |-> name_JaneSmith]]

LinkPages ==
    {LinkItems(n) : n \in 0..MaxLinks}
    \cup {<<[kind |-> "text", user |-> u_jane_smith, domain |-> d_cs_example]>> \o LinkItems(n) :
            n \in 0..2}

LinkVisited == {{}, {url_people}, {url_people, LinkUrl(2), LinkUrl(5)}}

UrlList(n) == [i \in 1..n |-> JStr(LinkUrl(i))]

LinkReplies ==
    {ReplyException, ReplyText, ReplyWrapped(JList(UrlList(2))), ReplyJson(JNull),
     ReplyJson(JStr(LinkUrl(1)))}
    \cup {ReplyJson(JList(UrlList(n))) : n \in 0..MaxReplyUrls}
    \cup {ReplyJson(JList(<<JNull, JStr(LinkHref(2)), JStr(url_john)>> \o UrlList(n))) :
            n \in {0, MaxReplyUrls}}

InitLinks ==
    /\ fn_arg \in {[soup |-> p, base_url |-> url_people, visited_urls |-> v, reply |-> r] :
                      p \in LinkPages, v \in LinkVisited, r \in LinkReplies}
    /\ fn_ret = <<>>
    /\ InitAlone

CallFindRelevantFacultyLinks ==
    /\ fn_ret = <<>>
    /\ fn_ret' = <<[request |-> link_analysis_request(fn_arg.soup, fn_arg.base_url,
                                                      fn_arg.visited_urls),
                    faculty_links |-> find_relevant_faculty_links(fn_arg.soup, fn_arg.base_url,
                                                                  fn_arg.visited_urls,
                                                                  fn_arg.reply)]>>
    /\ UNCHANGED <<fn_arg, scrapeVars>>

SpecLinks == InitLinks /\ [][CallFindRelevantFacultyLinks]_vars

\* C20: find_relevant_faculty_links lists at most the first 50 collected links
\* in its prompt, returns at most LINK_ANALYSIS_LIMIT URLs, none of them in the
\* visited set of the call, and returns the empty list when the request fails
\* or the completion is not JSON.
C20_LinkAnalysisBounded ==
    fn_ret # <<>> =>
        LET all_links == collect_all_links(fn_arg.soup, fn_arg.base_url, fn_arg.visited_urls)
            request == fn_ret[1].request
            links == fn_ret[1].faculty_links
        IN /\ request # None =>
                /\ Len(request[1]) <= 50
                /\ request[1] = SubSeq(all_links, 1, Len(request[1]))
                /\ Len(request[1]) < 50 => request[1] = all_links
           /\ Len(links) <= 10
           /\ \A i \in DOMAIN links : links[i] \notin fn_arg.visited_urls
           /\ fn_arg.reply.kind \in {"exception", "text", "wrapped"} => links = <<>>

\* more than 50 links collected and more than 10 unvisited URLs selected, one
\* visited URL among the selection
C20_Witness ==
    /\ fn_ret # <<>>
    /\ Len(collect_all_links(fn_arg.soup, fn_arg.base_url, fn_arg.visited_urls)) > 50
    /\ fn_arg.reply = ReplyJson(JList(UrlList(MaxReplyUrls)))
    /\ LinkUrl(2) \in fn_arg.visited_urls
    /\ fn_ret[1].request # None /\ Len(fn_ret[1].request[1]) = 50
    /\ Cardinality({LinkUrl(i) : i \in 1..MaxReplyUrls} \ fn_arg.visited_urls) > 10
    /\ Len(fn_ret[1].faculty_links) = 10
    /\ fn_ret[1].faculty_links[2] = LinkUrl(3)

\* C21: every URL returned by find_relevant_faculty_links is one of the
\* hyperlinks collected from the faculty page, so that the fallback never
\* fetches a URL that the language model made up.
C21_LinksComeFromThePage ==
    fn_ret # <<>> =>
        \A i \in DOMAIN fn_ret[1].faculty_links :
            fn_ret[1].faculty_links[i]
                \in Range(collect_all_links(fn_arg.soup, fn_arg.base_url, fn_arg.visited_urls))
\* ------------------------------------------------------------------------
\* is_faculty_email called on two addresses of one local part
\* ------------------------------------------------------------------------
EmailUsers ==
    {u_info, u_Info, u_no_reply, u_jane_smith, u_jdoe, u_information, u_cs_list,
     <<"a", "l", "u", "m", "n", "i">>}

EmailDomains ==
    {d_cs_example, d_x, d_office_x, <<"b", "o", "a", "r", "d", "m", "a", "n">>}

InitEmail ==
    /\ fn_arg \in {[user |-> u, domain_a |-> a, domain_b |-> b] :
                      u \in EmailUsers, a \in EmailDomains, b \in EmailDomains}
    /\ fn_ret = <<>>
    /\ InitAlone

CallIsFacultyEmail ==
    /\ fn_ret = <<>>
    /\ fn_ret' = <<[a |-> is_faculty_email(address(fn_arg.user, fn_arg.domain_a)),
                    b |-> is_faculty_email(address(fn_arg.user, fn_arg.domain_b))]>>
    /\ UNCHANGED <<fn_arg, scrapeVars>>

SpecEmail == InitEmail /\ [][CallIsFacultyEmail]_vars

\* the local part starts with an administrative prefix or contains a generic word
LocalPartRejected(user) ==
    \/ \E p \in DOMAIN AdminPrefixes : startswith(lower(user), AdminPrefixes[p])
    \/ \E k \in DOMAIN generic_keywords : contains(lower(user), generic_keywords[k])

\* C27: is_faculty_email decides on the local part only: an address is
\* rejected exactly when its local part starts with an administrative prefix
\* or contains a generic word, so that two addresses of one local part get the
\* same verdict whatever their domains.
C27_LocalPartDecides ==
    fn_ret # <<>> =>
        /\ fn_ret[1].a = fn_ret[1].b
        /\ fn_ret[1].a = ~LocalPartRejected(fn_arg.user)
\* ------------------------------------------------------------------------
\* scrape_complete_faculty_data, step by step. Every network fetch and every
\* language-model completion is an input chosen when the step runs.
\* ------------------------------------------------------------------------
name_JaneAnnSmith == w_Jane \o sp \o w_Ann \o sp \o w_Smith

\* the address constructed for John Doe from the host of url_john
email_john_constructed ==
    <<"j", "o", "h", "n", ".", "d", "o", "e", "@", "f", "a", "c", "u", "l", "t", "y", ".", "e", "x", "a", "m", "p", "l", "e", ".", "e", "d", "u">>

\* the elements the faculty page is made of
SiteItems ==
    {[kind |-> "text", user |-> u_jane_smith, domain |-> d_cs_example],
     [kind |-> "text", user |-> u_info, domain |-> d_cs_example],
     [kind |-> "name", sel |-> 1, name |-> name_JaneSmith, href |-> <<>>],
     [kind |-> "name", sel |-> 4, name |-> name_JaneAnnSmith, href |-> href_jane],
     [kind |-> "link", href |-> href_jane, label |-> name_JaneSmith],
     [kind |-> "link", href |-> url_john, label |-> name_JohnDoe]}

SitePages == ListsUpTo(SiteItems, MaxPageItems)

\* the answers to the pairing prompt
SitePairEntries ==
    {PairEntry(JStr(name_JaneSmith), JStr(email_jane)),
     PairEntry(JStr(name_JohnDoe), JStr(email_jane)),
     PairEntry(JNull, JStr(email_jane))}

SitePairReplies ==
    {ReplyException, ReplyText}
    \cup {ReplyJson(JList(l)) : l \in ListsUpTo(SitePairEntries, MaxReplyEntries)}

\* the answers to the link prompt
SiteLinkEntries == {JStr(url_jane), JStr(url_john), JStr(url_people), JStr(href_jane), JNull}

SiteLinkReplies ==
    {ReplyException, ReplyText, ReplyJson(JNull), ReplyJson(JStr(url_jane))}
    \cup {ReplyJson(JList(l)) : l \in ListsUpTo(SiteLinkEntries, MaxReplyEntries)}

\* the answers to the profile prompt
ProfileObject(name, email) == [t |-> "obj", name |-> name, email |-> email]

SiteProfileReplies ==
    {ReplyException, ReplyText, ReplyJson(JNull),
     ReplyJson(ProfileObject(JStr(name_JaneSmith), JStr(email_jane))),
     ReplyJson(ProfileObject(JStr(name_JaneSmith), JMissing)),
     ReplyJson(ProfileObject(JStr(name_JaneSmith), JStr(<<" ">>))),
     ReplyJson(ProfileObject(JStr(name_JohnDoe), JStr(s_email_placeholder))),
     ReplyJson(ProfileObject(JStr(name_JohnDoe), JNull)),
     ReplyJson(ProfileObject(JNull, JStr(email_jane))),
     ReplyJson(ProfileObject(JMissing, JStr(email_jane))),
     ReplyJson(ProfileObject(JStr(name_ComputerScience), JStr(email_jane)))}

\* the answers of the search API
SiteApiResponses ==
    {[kind |-> "timeout"], Body(JMissing, JList(<<>>)), Body(JMissing, JList(ExampleResults))}

\* the answers to the summary prompt
SiteSummaryReplies ==
    {GoodSummary, ReplyException,
     ReplyJson(SummaryObject(JStr(s_summary), JMissing, JList(<<>>)))}

\* a faculty of six: a page with one address or with one link, and a model
\* that answers with six pairs, six profile links and a profile for each
SixPairs ==
    [i \in 1..6 |-> IF i % 2 = 1 THEN PairEntry(JStr(name_JaneSmith), JStr(email_jane))
                    ELSE PairEntry(JStr(name_JohnDoe), JStr(email_jane))]

SixLinks == [i \in 1..6 |-> JStr(LinkUrl(i))]

\* what the pages of a site and the answers about it can be
PagesOf(s) ==
    IF s = "department" THEN SitePages
    ELSE {<<[kind |-> "text", user |-> u_jane_smith, domain |-> d_cs_example]>>,
          <<[kind |-> "link", href |-> href_jane, label |-> name_JaneSmith]>>}

PairRepliesOf(s) ==
    IF s = "department" THEN SitePairReplies ELSE {ReplyJson(JList(SixPairs))}

LinkRepliesOf(s) ==
    IF s = "department" THEN SiteLinkReplies ELSE {ReplyJson(JList(SixLinks))}

ProfileRepliesOf(s) ==
    IF s = "department" THEN SiteProfileReplies
    ELSE {ReplyException, ReplyJson(ProfileObject(JStr(name_JaneSmith), JStr(email_jane)))}

ApiResponsesOf(s) ==
    IF s = "department" THEN SiteApiResponses
    ELSE {[kind |-> "timeout"], Body(JMissing, JList(ExampleResults))}

SummaryRepliesOf(s) ==
    IF s = "department" THEN SiteSummaryReplies ELSE {GoodSummary}

Init ==
    /\ fn_arg = <<>>
    /\ fn_ret = <<>>
    /\ ScraperConstructed
    /\ NoScript
    /\ serpapi_key \in {<<>>, s_key}

\* line 736 left out: the set is kept as the call finds it
visited_at_start_kept(visited) == visited

\* line 736: self.visited_urls.clear()
visited_at_start(visited) == {}

\* lines 729-736: a call of scrape_complete_faculty_data starts, on a new scraper
\* or after an earlier call has returned or raised, and clears the visited set
StartScraping ==
    /\ pc \in {"idle", "returned", "raised"}
    /\ pc' = "fetch"
    /\ faculty_page_url' = url_people
    /\ visited_urls' = visited_at_start(visited_urls)
    /\ page_requests' = {}
    /\ request_log' = <<>>
    /\ soup' = <<>>
    /\ faculty_data' = <<>>
    /\ faculty_links' = <<>>
    /\ link_index' = 1
    /\ faculty_index' = 1
    /\ papers_result' = None
    /\ professors' = <<>>
    /\ returned' = None
    /\ unique_emails' = <<>>
    /\ direct_count' = 0
    /\ fallback_requests' = {}
    /\ UNCHANGED <<pureVars, worldVars, scriptVars, serpapi_key>>

\* lines 736-742: fetch the faculty page
FetchFacultyPage ==
    /\ pc = "fetch"
    /\ visited_urls' = visited_urls \cup {faculty_page_url}
    /\ \/ /\ soup' = <<>>                  \* get_page_content returned None
          /\ pc' = "returned"
          /\ returned' = Some(<<>>)
       \/ /\ soup' \in PagesOf(site)
          /\ pc' = "extract"
          /\ returned' = None
    /\ page_requests' = page_requests \cup {faculty_page_url}
    /\ UNCHANGED request_log
    /\ UNCHANGED <<pureVars, worldVars, scriptVars, histVars, serpapi_key, faculty_page_url, faculty_data, faculty_links,
                   link_index, faculty_index, papers_result, professors>>

\* line 749 replaced by a test that always succeeds
needs_fallback_always(candidates) == TRUE

\* line 749: the test that sends the session to scrape_faculty_from_links
needs_fallback(candidates) == Len(candidates) = 0

\* lines 745-750: find_all_faculty_emails_and_names; the page is not read again
FindAllFacultyEmailsAndNames ==
    /\ pc = "extract"
    /\ \E reply \in PairRepliesOf(site) :
          faculty_data' = find_all_faculty_emails_and_names(soup, faculty_page_url, reply)
    /\ unique_emails' = filter_unique_emails(harvest_all_emails(soup))
    /\ direct_count' = Len(faculty_data')
    /\ soup' = <<>>
    /\ faculty_index' = 1
    /\ pc' = IF needs_fallback(faculty_data') THEN "fallback" ELSE "loop"
    /\ UNCHANGED fallback_requests
    /\ UNCHANGED page_requests
    /\ UNCHANGED request_log
    /\ UNCHANGED <<pureVars, worldVars, scriptVars, serpapi_key, visited_urls, faculty_page_url, faculty_links,
                   link_index, papers_result, professors, returned>>

\* lines 501-514: scrape_faculty_from_links fetches the faculty page again and
\* asks for the profile links of what it got
FindRelevantFacultyLinks ==
    /\ pc = "fallback"
    /\ visited_urls' = visited_urls \cup {faculty_page_url}
    /\ \/ /\ faculty_links' = <<>>         \* get_page_content returned None
          /\ pc' = "returned"
          /\ returned' = Some(<<>>)
          /\ UNCHANGED fallback_requests
       \/ \E page \in PagesOf(site), reply \in LinkRepliesOf(site) :
             /\ fallback_requests' =
                   IF link_analysis_request(page, faculty_page_url, visited_urls') = None
                   THEN fallback_requests
                   ELSE fallback_requests \cup {"link_analysis"}
             /\ faculty_links' = find_relevant_faculty_links(page, faculty_page_url,
                                                             visited_urls', reply)
             /\ pc' = IF faculty_links' = <<>> THEN "returned" ELSE "profiles"
             /\ returned' = IF faculty_links' = <<>> THEN Some(<<>>) ELSE None
    /\ link_index' = 1
    /\ page_requests' = page_requests \cup {faculty_page_url}
    /\ UNCHANGED request_log
    /\ UNCHANGED <<pureVars, worldVars, scriptVars, serpapi_key, faculty_page_url, soup, faculty_data, faculty_index,
                   papers_result, professors, unique_emails, direct_count>>

\* lines 517-519 left out: the loop goes through every link
links_limit_reached_never(candidates) == FALSE

\* lines 517-519: the test that ends the loop over faculty_links
links_limit_reached(candidates) == Len(candidates) >= FACULTY_LINKS_LIMIT

\* lines 516-543: one pass of the loop over faculty_links
AnalyzeProfile ==
    /\ pc = "profiles"
    /\ link_index <= Len(faculty_links)
    /\ ~links_limit_reached(faculty_data)
    /\ LET profile_url == faculty_links[link_index] IN
       /\ visited_urls' = visited_urls \cup {profile_url}
       /\ \/ faculty_data' = faculty_data  \* get_page_content returned None
          \/ \E reply \in ProfileRepliesOf(site) :
                LET faculty_info == extract_faculty_info_from_profile(profile_url, reply) IN
                faculty_data' = IF faculty_info = None THEN faculty_data
                                ELSE Append(faculty_data, link_candidate(faculty_info[1]))
    /\ link_index' = link_index + 1
    /\ fallback_requests' = fallback_requests \cup {"profile_page"}
    /\ page_requests' = page_requests \cup {faculty_links[link_index]}
    /\ UNCHANGED request_log
    /\ UNCHANGED <<pureVars, worldVars, scriptVars, unique_emails, direct_count, pc, serpapi_key, faculty_page_url, soup, faculty_links,
                   faculty_index, papers_result, professors, returned>>

\* lines 545-546 and 753-759: the loop over faculty_links is over and
\* scrape_faculty_from_links returns its candidates
ReturnFromLinks ==
    /\ pc = "profiles"
    /\ link_index > Len(faculty_links) \/ links_limit_reached(faculty_data)
    /\ pc' = IF faculty_data = <<>> THEN "returned" ELSE "loop"
    /\ returned' = IF faculty_data = <<>> THEN Some(<<>>) ELSE None
    /\ faculty_links' = <<>>
    /\ link_index' = 1
    /\ faculty_index' = 1
    /\ UNCHANGED page_requests
    /\ UNCHANGED request_log
    /\ UNCHANGED <<pureVars, worldVars, scriptVars, histVars, serpapi_key, visited_urls, faculty_page_url, soup, faculty_data,
                   papers_result, professors>>

\* lines 761-769: the publication lookup of the next candidate
LookUpPapers ==
    /\ pc = "loop"
    /\ faculty_index <= Len(faculty_data)
    /\ \E response \in ApiResponsesOf(site) :
          papers_result' = Some(get_professor_papers_direct_search(
                                    serpapi_key, faculty_data[faculty_index].name,
                                    faculty_data[faculty_index].email, response))
    /\ pc' = "summary"
    /\ UNCHANGED page_requests
    /\ request_log' = Append(request_log, [op |-> "lookup", index |-> faculty_index])
    /\ UNCHANGED <<pureVars, worldVars, scriptVars, histVars, serpapi_key, visited_urls, faculty_page_url, soup, faculty_data,
                   faculty_links, link_index, faculty_index, professors, returned>>

\* lines 771-812: the summary and the record; a summary that cannot be
\* subscripted raises out of scrape_complete_faculty_data
CompleteProfData ==
    /\ pc = "summary"
    /\ \E reply \in SummaryRepliesOf(site) :
          LET faculty_info == faculty_data[faculty_index]
              research_summary == research_summary_for(faculty_info, papers_result[1], reply)
          IN IF summary_subscript_raises(research_summary)
             THEN /\ pc' = "raised"
                  /\ UNCHANGED <<professors, faculty_index>>
             ELSE /\ pc' = "loop"
                  /\ professors' = Append(professors,
                                          complete_prof_data(faculty_info, faculty_page_url,
                                                             papers_result[1], research_summary))
                  /\ faculty_index' = faculty_index + 1
    /\ UNCHANGED page_requests
    /\ request_log' = IF summary_requested(papers_result[1])
                      THEN Append(request_log, [op |-> "summary", index |-> faculty_index])
                      ELSE request_log
    /\ UNCHANGED <<pureVars, worldVars, scriptVars, histVars, serpapi_key, visited_urls, faculty_page_url, soup, faculty_data,
                   faculty_links, link_index, papers_result, returned>>

\* line 823
ReturnProfessors ==
    /\ pc = "loop"
    /\ faculty_index > Len(faculty_data)
    /\ pc' = "returned"
    /\ returned' = Some(professors)
    /\ UNCHANGED page_requests
    /\ UNCHANGED request_log
    /\ UNCHANGED <<pureVars, worldVars, scriptVars, histVars, serpapi_key, visited_urls, faculty_page_url, soup, faculty_data,
                   faculty_links, link_index, faculty_index, papers_result, professors>>

Next ==
    \/ StartScraping
    \/ FetchFacultyPage
    \/ FindAllFacultyEmailsAndNames
    \/ FindRelevantFacultyLinks
    \/ AnalyzeProfile
    \/ ReturnFromLinks
    \/ LookUpPapers
    \/ CompleteProfData
    \/ ReturnProfessors

Spec == Init /\ [][Next]_vars

\* the scraper pointed at the faculty of six
InitLimit ==
    /\ fn_arg = <<>>
    /\ fn_ret = <<>>
    /\ ScraperConstructed
    /\ environ = {"OPENAI_API_KEY", "SERPAPI_API_KEY", "EMAIL_APP_PW"}
    /\ csv_file = None
    /\ template_file = FALSE
    /\ site = "faculty_of_six"
    /\ sessions = {}
    /\ ScriptsIdle
    /\ serpapi_key \in {<<>>, s_key}

SpecLimit == InitLimit /\ [][Next]_vars

\* ------------------------------------------------------------------------
\* Claims about the records of a scraping session
\* ------------------------------------------------------------------------
\* the records scrape_complete_faculty_data has returned
Returned == IF returned = None THEN <<>> ELSE returned[1]

ExtractionMethod(record) == record.scraping_notes.extraction_method

\* C6: every professor record built and returned by scrape_complete_faculty_data
\* has a non-empty name and a non-empty email, whatever the page holds and
\* whatever the language model answers, on each of the three extraction paths
\* (AI pairing, name-based construction, link-analysis fallback).
C6_NameAndEmailNonEmpty ==
    /\ \A i \in DOMAIN professors :
          professors[i].name # <<>> /\ professors[i].email # <<>>
    /\ \A i \in DOMAIN Returned :
          /\ Returned[i].name # <<>> /\ Returned[i].email # <<>>
          /\ ExtractionMethod(Returned[i]) \in
                {"ai_page_analysis", "name_extraction_email_construction",
                 "link_analysis_fallback"}

\* a session has returned a record of the link-analysis fallback whose profile
\* reply carried no address, so that the address was constructed
C6_Witness ==
    /\ pc = "returned"
    /\ \E i \in DOMAIN Returned :
          /\ ExtractionMethod(Returned[i]) = "link_analysis_fallback"
          /\ Returned[i].scraping_notes.email_constructed
          /\ Returned[i].name = name_JohnDoe
          /\ Returned[i].email = email_john_constructed

\* C10: the professors returned for one institution never hold two entries
\* with the same lower-cased email, nor, on the name-construction path, two
\* entries with the same lower-cased name.
C10_NoDuplicateProfessors ==
    \A i, j \in DOMAIN Returned :
        i # j =>
            /\ lower(Returned[i].email) # lower(Returned[j].email)
            /\ (ExtractionMethod(Returned[i]) = "name_extraction_email_construction"
                    => lower(Returned[i].name) # lower(Returned[j].name))


\* C11 as the specification words it: whenever the extractor harvested at
\* least one faculty email, scrape_faculty_from_links sends no link-analysis
\* request and fetches no profile page.
C11_NoFallbackWhenEmailHarvested ==
    unique_emails # <<>> => fallback_requests = {}

\* C11: the link-analysis fallback runs only when
\* find_all_faculty_emails_and_names returned no candidate: a link-analysis
\* request or a profile fetch implies that the direct extraction came back
\* empty, whether or not it had harvested an address.
C11_FallbackOnlyWithoutCandidates ==
    /\ fallback_requests # {} => direct_count = 0
    /\ pc \in {"fallback", "profiles"} => direct_count = 0
    /\ direct_count > 0 => fallback_requests = {}

\* an address was harvested, the pairing gave no candidate, and the fallback
\* has asked for the links and fetched a profile
C11_Witness ==
    /\ unique_emails = <<email_jane>>
    /\ direct_count = 0
    /\ fallback_requests = {"link_analysis", "profile_page"}

\* C12: whatever the language model answers to the summary prompt, the
\* professor being processed is added to the result and
\* scrape_complete_faculty_data does not raise: the records built so far are
\* never lost to an exception.
C12_SummaryFailureNotFatal ==
    /\ pc # "raised"
    /\ pc = "returned" /\ faculty_data # <<>> => Len(Returned) = Len(faculty_data)

\* C25: when a call of scrape_complete_faculty_data starts, self.visited_urls
\* is empty, whatever the calls before it have visited; from then on the set
\* holds exactly the URLs the call has passed to get_page_content, neither
\* more nor fewer.
C25_VisitedScopedToTheCall ==
    /\ pc = "fetch" => visited_urls = {}
    /\ visited_urls = page_requests

\* the fallback of a call has fetched the faculty page and two profile pages,
\* and the set holds these three URLs
C25_Witness ==
    /\ pc = "profiles"
    /\ link_index = 3
    /\ page_requests = {url_people, url_jane, url_john}
    /\ visited_urls = {url_people, url_jane, url_john}

\* the candidates whose lookup has returned, in the order of the log
LookedUp == SelectSeq(request_log, LAMBDA e : e.op = "lookup")

\* C26: the candidates are looked up one at a time in their order, a summary
\* request is sent for a candidate only right after the lookup of that same
\* candidate, and a candidate whose lookup returned an error payload gets no
\* summary request and the record of an empty summary, with no keywords and
\* no areas.
C26_LookupBeforeSummary ==
    /\ \A k \in DOMAIN LookedUp : LookedUp[k].index = k
    /\ Len(LookedUp) = IF pc = "summary" THEN faculty_index
                       ELSE IF pc = "raised" THEN faculty_index
                       ELSE IF pc \in {"loop", "returned"} THEN Len(professors)
                       ELSE 0
    /\ \A p \in DOMAIN request_log :
          request_log[p].op = "summary"
              => /\ p > 1
                 /\ request_log[p - 1] = [op |-> "lookup", index |-> request_log[p].index]
    /\ \A i \in DOMAIN professors :
          professors[i].scraping_notes.papers_error # None
              => /\ [op |-> "summary", index |-> i] \notin Range(request_log)
                 /\ professors[i].research_summary = JStr(<<>>)
                 /\ professors[i].research_keywords = JList(<<>>)
                 /\ professors[i].research_areas = JList(<<>>)

\* two candidates are done: the lookup of the first returned an error payload
\* and no summary was asked for, the second was looked up and summarized
C26_Witness ==
    /\ Len(professors) = 2
    /\ professors[1].scraping_notes.papers_error # None
    /\ professors[2].scraping_notes.papers_error = None
    /\ request_log = <<[op |-> "lookup", index |-> 1], [op |-> "lookup", index |-> 2],
                       [op |-> "summary", index |-> 2]>>

ProfileNames ==
    {JStr(name_JaneSmith), JStr(name_JohnDoe), JStr(<<" ">> \o name_JaneSmith \o <<" ">>),
     JStr(name_ComputerScience), JStr(w_Jane), JStr(<<>>), JMissing, JNull}

ProfileEmails ==
    {JStr(email_jane), JStr(<<" ">> \o email_jdoe), JStr(<<>>), JStr(<<" ">>),
     JStr(s_email_placeholder), JMissing, JNull}

ProfileReplies ==
    {ReplyException, ReplyText, ReplyJson(JNull), ReplyJson(JList(<<>>)),
     ReplyWrapped(ProfileObject(JStr(name_JaneSmith), JStr(email_jane)))}
    \cup {ReplyJson(ProfileObject(n, e)) : n \in ProfileNames, e \in ProfileEmails}

InitProfile ==
    /\ fn_arg \in {[profile_url |-> u, reply |-> r] :
                      u \in {url_jane, url_john}, r \in ProfileReplies}
    /\ fn_ret = <<>>
    /\ InitAlone

CallExtractFacultyInfoFromProfile ==
    /\ fn_ret = <<>>
    /\ fn_ret' = <<extract_faculty_info_from_profile(fn_arg.profile_url, fn_arg.reply)>>
    /\ UNCHANGED <<fn_arg, scrapeVars>>

SpecProfile == InitProfile /\ [][CallExtractFacultyInfoFromProfile]_vars

\* the reply is an object that describes a profile
DescribesProfile == fn_arg.reply.kind = "json" /\ fn_arg.reply.value.t = "obj"

\* the name of the reply is a string that is_valid_professor_name accepts
NameValid ==
    /\ fn_arg.reply.value.name.t = "str"
    /\ strip(fn_arg.reply.value.name.v) # <<>>
    /\ is_valid_professor_name(strip(fn_arg.reply.value.name.v))

\* the email of the reply is missing, empty or null
EmailAbsent ==
    \/ fn_arg.reply.value.email.t \in {"missing", "null"}
    \/ /\ fn_arg.reply.value.email.t = "str"
       /\ strip(fn_arg.reply.value.email.v) = <<>>

\* first.last@host, the host without a leading www.
FirstLastAtHost ==
    LET words == split(lower(fn_arg.reply.value.name.v))
        host == netloc(fn_arg.profile_url)
    IN words[1] \o s_dot \o words[Len(words)] \o s_at
          \o (IF startswith(host, s_www_dot) THEN SubSeq(host, 5, Len(host)) ELSE host)

\* C22: for a reply that describes a profile, extract_faculty_info_from_profile
\* returns a result when the name is valid: with the email first.last@host and
\* email_constructed set when the reply's email is missing, empty or null, with
\* the reply's email otherwise; it returns None when the name is missing or
\* fails is_valid_professor_name.
C22_ProfileResult ==
    fn_ret # <<>> /\ DescribesProfile =>
        IF NameValid
        THEN /\ fn_ret[1] # None
             /\ IF EmailAbsent
                THEN /\ fn_ret[1][1].email = FirstLastAtHost
                     /\ fn_ret[1][1].email_constructed
                ELSE fn_ret[1][1].email = fn_arg.reply.value.email.v
        ELSE fn_ret[1] = None
\* ------------------------------------------------------------------------
\* select_best_paper called on its own
\* ------------------------------------------------------------------------
MaxPapers == 3

PaperTitles ==
    {<<"U", "r", "b", "a", "n", " ", "H", "o", "u", "s", "i", "n", "g">>, <<"H", "o", "u", "s", "i", "n", "g", " ", "P", "o", "l", "i", "c", "y">>, <<"G", "r", "a", "p", "h", " ", "C", "o", "l", "o", "u", "r", "i", "n", "g">>, <<"D", "a", "t", "a", " ", "o", "n", " ", "D", "a", "t", "a">>}

\* the papers of a record: titles, snippets and citation counts as the scraper
\* writes them
PaperPool ==
    {[title |-> t, snippet |-> s_NA, cited_by |-> c] : t \in PaperTitles, c \in {0, 5}}

InitPaper ==
    /\ fn_arg \in {[name |-> name_JaneSmith, top_papers |-> l] :
                      l \in ListsUpTo(PaperPool, MaxPapers)}
    /\ fn_ret = <<>>
    /\ InitAlone

CallSelectBestPaper ==
    /\ fn_ret = <<>>
    /\ fn_ret' = <<select_best_paper(fn_arg)>>
    /\ UNCHANGED <<fn_arg, scrapeVars>>

SpecPaper == InitPaper /\ [][CallSelectBestPaper]_vars

\* the keyword occurrences in title and snippet, counted keyword by keyword
Occurrences(paper) ==
    LET text == lower(paper.title \o <<" ">> \o paper.snippet)
        at(k) == {i \in 1..(Len(text) - Len(relevant_keywords[k]) + 1) :
                     SubSeq(text, i, i + Len(relevant_keywords[k]) - 1) = relevant_keywords[k]}
    IN LET RECURSIVE total(_)
           total(k) == IF k = 0 THEN 0 ELSE Cardinality(at(k)) + total(k - 1)
       IN total(Len(relevant_keywords))

\* the score in hundredths
Score(paper) == 1000 * Occurrences(paper) + paper.cited_by

\* C23: select_best_paper returns None for an empty top_papers list; otherwise
\* it returns the paper of the list whose score 10 x occurrences +
\* citations/100 is maximal, the earliest of the list among those that tie.
C23_BestPaperSelected ==
    fn_ret # <<>> =>
        IF fn_arg.top_papers = <<>> THEN fn_ret[1] = None
        ELSE \E i \in DOMAIN fn_arg.top_papers :
                /\ fn_ret[1] = Some(fn_arg.top_papers[i])
                /\ \A j \in DOMAIN fn_arg.top_papers :
                      /\ Score(fn_arg.top_papers[j]) <= Score(fn_arg.top_papers[i])
                      /\ j < i => Score(fn_arg.top_papers[j]) < Score(fn_arg.top_papers[i])

\* three papers, the second and the third with the highest score, and the
\* second returned
C23_Witness ==
    /\ fn_ret # <<>>
    /\ Len(fn_arg.top_papers) = 3
    /\ fn_arg.top_papers[2] # fn_arg.top_papers[3]
    /\ Score(fn_arg.top_papers[2]) = Score(fn_arg.top_papers[3])
    /\ Score(fn_arg.top_papers[1]) < Score(fn_arg.top_papers[2])
    /\ Score(fn_arg.top_papers[2]) = 2005
    /\ fn_ret[1] = Some(fn_arg.top_papers[2])
\* ------------------------------------------------------------------------
\* The two scripts: main of faculty-scraper-proto.py over the URLs of the CSV,
\* and generate_all_emails of draft-generator.py over the files it wrote.
\* A call of scrape_complete_faculty_data is one step here: what it returns
\* and what it has sent are inputs chosen when the step runs.
\* ------------------------------------------------------------------------
candidate_john ==
    [name |-> name_JohnDoe, email |-> email_jdoe, source |-> "ai_page_analysis",
     confidence |-> s_medium]

\* the rows of faculty-urls.csv
CsvFiles ==
    {None,
     Some(<<>>),
     Some(<< <<<<"U", "R", "L">>>> >>),
     Some(<< <<<<"U", "R", "L">>>>, <<url_people>> >>),
     Some(<< <<url_people>>, <<url_john>> >>),
     Some(<< <<url_people>>, <<url_people_bare>> >>),
     Some(<< <<<<" ">> \o url_people_jane, name_JaneSmith>>, <<>>, <<url_jane>> >>)}

Environments ==
    {{"OPENAI_API_KEY", "SERPAPI_API_KEY", "EMAIL_APP_PW"},
     {"SERPAPI_API_KEY", "EMAIL_APP_PW"},
     {"OPENAI_API_KEY", "EMAIL_APP_PW"},
     {"OPENAI_API_KEY", "SERPAPI_API_KEY"},
     {}}

\* lines 761-812 for one candidate whose summary is well-formed
professor_record(faculty_info, faculty_url, key, response) ==
    LET result == get_professor_papers_direct_search(key, faculty_info.name,
                                                     faculty_info.email, response)
    IN complete_prof_data(faculty_info, faculty_url, result,
                          research_summary_for(faculty_info, result, GoodSummary))

\* what a call of scrape_complete_faculty_data can come to: it raises, or
\* returns a list of records, after the requests it has sent
SessionOutcomes(faculty_url, key) ==
    LET found == Body(JMissing, JList(ExampleResults))
        nothing == Body(JMissing, JList(<<>>))
        jane(r) == professor_record(candidate_jane, faculty_url, key, r)
        john(r) == professor_record(candidate_john, faculty_url, key, r)
        scholar == IF key = <<>> THEN {} ELSE {"scholar"}
    IN {[raised |-> FALSE, professors |-> <<>>, effects |-> {"page"} \cup m] :
            m \in {{}, {"model"}}}
       \cup {[raised |-> FALSE, professors |-> p, effects |-> {"page", "model"} \cup scholar] :
               p \in {<<jane(found)>>, <<jane(nothing)>>, <<jane(found), john(nothing)>>}}
       \cup (IF key = <<>> THEN {}
             ELSE {[raised |-> TRUE, professors |-> <<>>,
                    effects |-> {"page", "model", "scholar"}]})

\* the URLs main can read from the CSV files above and, for each of them and
\* each key, what its session can come to
CsvUrls ==
    UNION {{read_faculty_urls(c[1])[i] : i \in DOMAIN read_faculty_urls(c[1])} :
              c \in CsvFiles \ {None}}

OutcomesOf ==
    UNION {{[faculty_url |-> u, key |-> k, outcome |-> o] : o \in SessionOutcomes(u, k)} :
              u \in CsvUrls, k \in {<<>>, s_key}}

NoScriptRuns == script_pc \in {"idle", "scraper_done", "scraper_aborted", "drafter_done",
                               "drafter_aborted"}

\* a new process: the locals of the script that ran before are gone
ProcessStarted ==
    /\ effects' = {}
    /\ url_index' = 1
    /\ saved_urls' = <<>>
    /\ attempted' = <<>>
    /\ prof_index' = 1
    /\ successful_emails' = <<>>
    /\ failed_emails' = <<>>
    /\ successful_drafts' = 0
    /\ drafts_stored' = <<>>

InitScripts ==
    /\ sessions = OutcomesOf
    /\ site = "department"
    /\ fn_arg = <<>>
    /\ fn_ret = <<>>
    /\ ScraperConstructed
    /\ serpapi_key = <<>>
    /\ environ \in Environments
    /\ csv_file \in CsvFiles
    /\ template_file \in BOOLEAN
    /\ ScriptsIdle

\* faculty-scraper-proto.py lines 900-931: main up to the loop. OpenAI(api_key=None)
\* is the library's: it raises, or it gives a client without a key
RunScraper ==
    /\ NoScriptRuns
    /\ ProcessStarted
    /\ loaded_professors' = <<>>
    /\ create_drafts' = create_drafts
    /\ IF csv_file = None
       THEN /\ script_pc' = "scraper_aborted"
            /\ UNCHANGED <<professor_info, serpapi_key>>
       ELSE /\ professor_info' = IF professor_info = None THEN Some({}) ELSE professor_info
            /\ IF read_faculty_urls(csv_file[1]) = <<>>
               THEN /\ script_pc' = "scraper_aborted"
                    /\ UNCHANGED serpapi_key
               ELSE \/ /\ "OPENAI_API_KEY" \notin environ
                       /\ script_pc' = "scraper_aborted"
                       /\ UNCHANGED serpapi_key
                    \/ /\ script_pc' = "scrape_urls"
                       /\ serpapi_key' = IF "SERPAPI_API_KEY" \in environ THEN s_key ELSE <<>>
    /\ faculty_urls' = IF script_pc' = "scrape_urls" THEN read_faculty_urls(csv_file[1])
                       ELSE <<>>
    /\ UNCHANGED <<pureVars, worldVars, sessionVars, written>>

\* faculty-scraper-proto.py lines 934-994: one pass of the loop over faculty_urls
ProcessFacultyUrl ==
    /\ script_pc = "scrape_urls"
    /\ url_index <= Len(faculty_urls)
    /\ LET faculty_url == faculty_urls[url_index]
       IN \E session \in sessions :
             /\ session.faculty_url = faculty_url
             /\ session.key = serpapi_key
             /\ LET filename == output_filename(faculty_url)
                    outcome == session.outcome
                IN /\ IF outcome.raised \/ outcome.professors = <<>>
                      THEN /\ effects' = effects \cup outcome.effects
                           /\ UNCHANGED <<professor_info, saved_urls, written>>
                      ELSE /\ effects' = effects \cup outcome.effects \cup {"file"}
                           /\ professor_info' =
                                 Some(write_file(professor_info[1], filename,
                                                 scraper_output(faculty_url,
                                                                outcome.professors)))
                           /\ saved_urls' = Append(saved_urls, faculty_url)
                           /\ written' = write_file(written, filename, outcome.professors)
                   /\ attempted' = Append(attempted, [url |-> faculty_url,
                                                      ended |-> url_outcome(outcome)])
                   /\ script_pc' = loop_after_url(outcome)
    /\ url_index' = url_index + 1
    /\ UNCHANGED <<pureVars, worldVars, sessionVars, serpapi_key, faculty_urls,
                   create_drafts, loaded_professors, prof_index, successful_emails,
                   failed_emails, successful_drafts, drafts_stored>>

\* faculty-scraper-proto.py: the loop is over and main returns
ScraperFinished ==
    /\ script_pc = "scrape_urls"
    /\ url_index > Len(faculty_urls)
    /\ script_pc' = "scraper_done"
    /\ UNCHANGED <<pureVars, worldVars, sessionVars, serpapi_key, professor_info, effects,
                   faculty_urls, url_index, saved_urls, attempted, written, create_drafts,
                   loaded_professors, prof_index, successful_emails, failed_emails,
                   successful_drafts, drafts_stored>>

\* the orders in which directory.glob can list a set of files
Listings(files) ==
    {l \in [1..Cardinality(files) -> files] : \A i, j \in DOMAIN l : l[i] = l[j] => i = j}

\* draft-generator.py lines 411-419, 20-34 and 296-339: main constructs the
\* generator and generate_all_emails runs up to its loop
RunDrafter ==
    /\ NoScriptRuns
    /\ ProcessStarted
    /\ faculty_urls' = <<>>
    /\ create_drafts' \in BOOLEAN
    /\ \/ /\ "OPENAI_API_KEY" \notin environ      \* OpenAI(api_key=None) raises
          /\ script_pc' = "drafter_aborted"
          /\ loaded_professors' = <<>>
       \/ IF generate_all_emails_aborts(template_file, "OPENAI_API_KEY" \in environ,
                                        create_drafts', "EMAIL_APP_PW" \in environ)
          THEN /\ script_pc' = "drafter_aborted"
               /\ loaded_professors' = <<>>
          ELSE \E json_files \in Listings(IF professor_info = None THEN {}
                                          ELSE professor_info[1]) :
                  /\ loaded_professors' = load_all_professors(professor_info, json_files)
                  /\ script_pc' = IF loaded_professors' = <<>> THEN "drafter_aborted"
                                  ELSE "generate"
    /\ UNCHANGED <<pureVars, worldVars, sessionVars, serpapi_key, professor_info, written>>

\* draft-generator.py lines 342-369: one pass of the loop over professors
ProcessProfessor ==
    /\ script_pc = "generate"
    /\ prof_index <= Len(loaded_professors)
    /\ \E reply \in {ReplyException, ReplyText} :
          LET email_result == generate_personalized_email(loaded_professors[prof_index],
                                                          reply)
          IN /\ successful_emails' = successful_after(successful_emails, email_result)
             /\ failed_emails' = failed_after(failed_emails, email_result)
             /\ IF email_result.success /\ create_drafts
                THEN /\ effects' = effects \cup {"model", "imap"}
                     /\ \E replies \in ImapReplies :
                           LET draft == create_gmail_draft(replies)
                           IN /\ successful_drafts' = IF draft.returned
                                                      THEN successful_drafts + 1
                                                      ELSE successful_drafts
                              /\ drafts_stored' =
                                    IF draft.stored
                                    THEN Append(drafts_stored, email_result.professor_email)
                                    ELSE drafts_stored
                ELSE /\ effects' = effects \cup {"model"}
                     /\ UNCHANGED <<successful_drafts, drafts_stored>>
    /\ prof_index' = prof_index + 1
    /\ UNCHANGED <<pureVars, worldVars, sessionVars, serpapi_key, professor_info, script_pc,
                   faculty_urls, url_index, saved_urls, attempted, written, create_drafts,
                   loaded_professors>>

\* draft-generator.py lines 371-389: the results are written to generated_emails.json
SaveResults ==
    /\ script_pc = "generate"
    /\ prof_index > Len(loaded_professors)
    /\ script_pc' = "drafter_done"
    /\ effects' = effects \cup {"file"}
    /\ UNCHANGED <<pureVars, worldVars, sessionVars, serpapi_key, professor_info, faculty_urls,
                   url_index, saved_urls, attempted, written, create_drafts,
                   loaded_professors, prof_index, successful_emails, failed_emails,
                   successful_drafts, drafts_stored>>

NextScripts ==
    \/ RunScraper
    \/ ProcessFacultyUrl
    \/ ScraperFinished
    \/ RunDrafter
    \/ ProcessProfessor
    \/ SaveResults

SpecScripts == InitScripts /\ [][NextScripts]_vars

\* ------------------------------------------------------------------------
\* Claims about the scripts
\* ------------------------------------------------------------------------
\* the entries of s that mask selects, in their order
Masked(s, mask, bit) ==
    LET RECURSIVE pick(_)
        pick(i) == IF i > Len(s) THEN <<>>
                   ELSE (IF mask[i] = bit THEN <<s[i]>> ELSE <<>>) \o pick(i + 1)
    IN pick(1)

Addressee(x) == <<x.professor_name, x.professor_email>>

\* the professors gone through so far, those that succeeded, those that failed
Processed ==
    [i \in 1..(prof_index - 1) |-> <<loaded_professors[i].name, loaded_professors[i].email>>]

\* C13: generate_all_emails goes through every loaded professor once and in
\* order whatever failed before: the successes and the failures together are
\* the professors processed so far, each once, both in the order of the load;
\* when the loop is over their number is the number of loaded professors, and
\* the drafts created never exceed the emails generated.
C13_EveryProfessorProcessedOnce ==
    script_pc \in {"generate", "drafter_done"} =>
        /\ prof_index <= Len(loaded_professors) + 1
        /\ Len(successful_emails) + Len(failed_emails) = prof_index - 1
        /\ \E mask \in [1..(prof_index - 1) -> BOOLEAN] :
              /\ Masked(Processed, mask, TRUE)
                    = [i \in DOMAIN successful_emails |-> Addressee(successful_emails[i])]
              /\ Masked(Processed, mask, FALSE)
                    = [i \in DOMAIN failed_emails |-> Addressee(failed_emails[i])]
        /\ successful_drafts <= Len(successful_emails)
        /\ script_pc = "drafter_done" =>
              Len(successful_emails) + Len(failed_emails) = Len(loaded_professors)

\* a run over three professors has ended: the first email failed, the two
\* after it were generated, and one of their drafts failed
C13_Witness ==
    /\ script_pc = "drafter_done"
    /\ Len(loaded_professors) = 3
    /\ Len(failed_emails) = 1
    /\ Addressee(failed_emails[1]) = <<loaded_professors[1].name, loaded_professors[1].email>>
    /\ Len(successful_emails) = 2
    /\ successful_drafts = 1
    /\ create_drafts

ScraperRuns == script_pc \in {"scrape_urls", "scraper_done", "scraper_aborted"}
DrafterRuns == script_pc \in {"generate", "drafter_done", "drafter_aborted"}

\* C14 as the specification words it: in each script a missing credential
\* (OPENAI_API_KEY, SERPAPI_API_KEY, EMAIL_APP_PW when drafts are requested)
\* or a missing input file (the CSV, the template) ends the run before any
\* page is fetched, any model or literature request is sent, any IMAP
\* connection is opened or any output file is written.
C14_MissingRequirementAborts ==
    /\ ScraperRuns /\ (csv_file = None \/ "OPENAI_API_KEY" \notin environ
                         \/ "SERPAPI_API_KEY" \notin environ)
          => script_pc = "scraper_aborted" /\ effects = {}
    /\ DrafterRuns /\ (~template_file \/ "OPENAI_API_KEY" \notin environ
                         \/ (create_drafts /\ "EMAIL_APP_PW" \notin environ))
          => script_pc = "drafter_aborted" /\ effects = {}

\* C14: the drafter ends its run before any request, IMAP connection or output
\* file when the template, OPENAI_API_KEY or (drafts requested) EMAIL_APP_PW
\* is missing; the scraper does so when the CSV is missing or holds no valid
\* URL. The scraper tests no credential: without SERPAPI_API_KEY its run goes
\* on, and every run that was ended at its start has done nothing outside.
C14_StartChecks ==
    /\ ScraperRuns /\ (csv_file = None \/ read_faculty_urls(csv_file[1]) = <<>>)
          => script_pc = "scraper_aborted" /\ effects = {}
    /\ DrafterRuns /\ (~template_file \/ "OPENAI_API_KEY" \notin environ
                         \/ (create_drafts /\ "EMAIL_APP_PW" \notin environ))
          => script_pc = "drafter_aborted" /\ effects = {}
    /\ script_pc \in {"scraper_aborted", "drafter_aborted"} => effects = {}

\* the drafter was asked for drafts without EMAIL_APP_PW, over a directory
\* that holds professors, and has ended its run with nothing done
C14_Witness ==
    /\ script_pc = "drafter_aborted"
    /\ create_drafts
    /\ environ = {"OPENAI_API_KEY", "SERPAPI_API_KEY"}
    /\ template_file
    /\ professor_info # None /\ professor_info[1] # {}
    /\ effects = {}

\* the file of the output directory that is named filename, as a set
FileNamed(filename) ==
    IF professor_info = None THEN {}
    ELSE {f \in professor_info[1] : f.filename = filename}

\* C15: in a batch run every URL of the CSV for which professors were found
\* has its own output file: two distinct URLs of the CSV never have the same
\* output filename, and the file written for a URL still holds that URL's
\* results when the run goes on.
C15_OneFilePerUrl ==
    ScraperRuns =>
        /\ \A i, j \in DOMAIN faculty_urls :
              faculty_urls[i] # faculty_urls[j]
                  => output_filename(faculty_urls[i]) # output_filename(faculty_urls[j])
        /\ \A i \in DOMAIN saved_urls :
              \E f \in FileNamed(output_filename(saved_urls[i])) :
                  f.data.source_url = JStr(saved_urls[i])

\* the professors a file holds, as name, email and number of papers
Persisted(records) ==
    [i \in DOMAIN records |->
        <<records[i].name, records[i].email, Len(records[i].top_papers)>>]

LoadedFrom(filename) ==
    LET from(p) == p.source_file = filename IN SelectSeq(loaded_professors, from)

\* C16: what load_all_professors returns holds, for every file of the output
\* directory, exactly the records the scraper wrote to it, in their order, each
\* with the name, the email and the number of top_papers it was written with,
\* and with the file's name and URL added.
C16_RecordsSurviveTheLoad ==
    script_pc \in {"generate", "drafter_done"} =>
        /\ \A w \in written :
              /\ Persisted(LoadedFrom(w.filename)) = Persisted(w.data)
              /\ \A i \in DOMAIN LoadedFrom(w.filename) :
                    \E f \in FileNamed(w.filename) :
                        LoadedFrom(w.filename)[i].source_url = f.data.source_url.v
        /\ \A i \in DOMAIN loaded_professors :
              \E w \in written : w.filename = loaded_professors[i].source_file

\* two files were written, one with a professor without papers, and all
\* three records were loaded
C16_Witness ==
    /\ script_pc = "generate"
    /\ Cardinality(written) = 2
    /\ Len(loaded_professors) = 3
    /\ \E i \in DOMAIN loaded_professors : loaded_professors[i].top_papers = <<>>
    /\ \E i \in DOMAIN loaded_professors : Len(loaded_professors[i].top_papers) = 3
    /\ \E i \in DOMAIN loaded_professors : loaded_professors[i].source_file = file_john

\* the loop of main is sequential code: a pass over one URL ends, since every
\* request it makes has a timeout, and the loop then goes on or is over
FairSpecScripts ==
    InitScripts /\ [][NextScripts]_vars /\ WF_vars(ProcessFacultyUrl) /\ WF_vars(ScraperFinished)

\* C24: in the batch main the URLs gone through so far are the first URLs read
\* from the CSV, in the order of the CSV, whatever each of them came to (the
\* call raised, nothing was found, a file was written), and a run that has
\* entered the loop ends after it has gone through all of them.
C24_EveryUrlAttempted ==
    /\ [](ScraperRuns =>
            /\ Len(attempted) = url_index - 1
            /\ Len(attempted) <= Len(faculty_urls)
            /\ \A i \in DOMAIN attempted : attempted[i].url = faculty_urls[i])
    /\ (script_pc = "scrape_urls")
          ~> (script_pc = "scraper_done" /\ Len(attempted) = Len(faculty_urls))

\* a run over two URLs has ended: the call for the first raised, the second
\* was scraped and saved
C24_Witness ==
    /\ script_pc = "scraper_done"
    /\ Len(faculty_urls) = 2
    /\ Len(attempted) = 2
    /\ attempted[1].ended = "raised"
    /\ attempted[2].ended = "saved"
    /\ saved_urls = <<faculty_urls[2]>>

\* C28: in one run of generate_all_emails no address has more than one email
\* generated for it or more than one draft stored for it, even when its
\* professor is in several files of the directory.
C28_NoProfessorTwice ==
    DrafterRuns =>
        /\ \A i, j \in DOMAIN successful_emails :
              i # j => successful_emails[i].professor_email
                          # successful_emails[j].professor_email
        /\ \A i, j \in DOMAIN drafts_stored : i # j => drafts_stored[i] # drafts_stored[j]

\* C29: create_gmail_draft returns True only when the server has accepted
\* LOGIN, SELECT and APPEND, so that successful_drafts is the number of
\* messages the server has stored in the drafts mailbox during the run.
C29_CountedDraftsAreStored ==
    DrafterRuns => successful_drafts = Len(drafts_stored)
====
